---- MODULE Spec2Model ----
(***************************************************************************)
(* Model of the ACTRIS and ICOS data-access modules                        *)
(* (atmoaccess_data_access/query_actris.py, query_icos.py): the vocabulary *)
(* tables and their reverse indexes, the dataset discovery queries and the *)
(* content filter of read_dataset.                                         *)
(*                                                                         *)
(* Python values are modelled as follows.  A dict is a sequence of         *)
(* <<key, value>> pairs in insertion order.  A list is a sequence.  None   *)
(* is the string "None" where it can occur next to other strings and is a  *)
(* record with tag "None" elsewhere.  A raised exception is a result whose *)
(* status is "raised" and whose exc field names the exception class.       *)
(*                                                                         *)
(* A list made of a set, list(set(x)), holds each element of x once, in an *)
(* order that depends on the hash seed of the process.  Three such lists   *)
(* are made.  query_actris.py line 167 (mapped_ecvs) is a sequence, in     *)
(* any order.  query_icos.py line 188 (the list __get_ecv returns, of up   *)
(* to twelve names) is the bag of its names: what the list holds and how   *)
(* often, without the order.  query_icos.py line 251 (selected_var, of up  *)
(* to nine names) is used only to go through it, and the model keeps what  *)
(* the loop sees of its order: the spec of each name, in the order of the  *)
(* list.                                                                   *)
(***************************************************************************)
EXTENDS Integers, Sequences, FiniteSets, Bags, TLC

VARIABLES
    vq,          \* the last vocabulary lookup and what it returned
    set_order,   \* ACTRIS: how the running process lists the sets it has
                 \* built: the list handed to set() -> the list list() made
                 \* of it
    frame_order, \* ICOS: the order in which the running process goes
                 \* through selected_var, as far as the rows show it:
                 \* selected_var before set() -> __get_spec(v) for the
                 \* names v of list(set(selected_var)) in their order,
                 \* without the specs no row of the endpoint has
    catalog,     \* ACTRIS metadata service: facility code -> its pages
    fault,       \* ACTRIS metadata service: the request that fails, if any
    aq,          \* the call of query_datasets_stations and its outcome
    sparql,      \* ICOS: the rows __sparql_data() returns
    iq,          \* the call of ICOS query_datasets and its outcome
    remote,      \* ACTRIS: the dataset behind the locator given to read_dataset
    rd,          \* the call of ACTRIS read_dataset and its outcome
    portal,      \* ICOS: persistent identifier -> what Dobj(pid) gives
    ird,         \* the call of ICOS read_dataset and its outcome
    hist,        \* the results of the earlier calls, oldest first
    ecv_lists,   \* ICOS: the list objects that are the values of
                 \* _ICOS_VAR_TO_ECV_MAPPING, in the order of its keys
    ecv_cache,   \* ICOS: the list objects functools.cache keeps for
                 \* __get_ecv: spec -> the bag of the names in the list
    actris_lists, \* ACTRIS: the list objects of MAPPING_ACTRIS_ECV a
                 \* caller has modified: variable -> the list as it is now
    actris_vars  \* the calls of ACTRIS get_list_variables and their
                 \* outcomes, oldest first

vars == <<vq, set_order, frame_order, catalog, fault, aq, sparql, iq, remote,
          rd, portal, ird, hist, ecv_lists, ecv_cache, actris_lists,
          actris_vars>>

None == "None"

(***************************************************************************)
(* Python dict and list helpers                                            *)
(***************************************************************************)
\* key in d
DictHas(d, k) == \E i \in 1..Len(d) : d[i][1] = k

\* d[key] for a key that is present
DictGet(d, k) == d[CHOOSE i \in 1..Len(d) : d[i][1] = k][2]

\* d.get(key, default)
DictGetOr(d, k, default) == IF DictHas(d, k) THEN DictGet(d, k) ELSE default

\* list(d): the keys in insertion order
DictKeys(d) == [i \in 1..Len(d) |-> d[i][1]]

\* x in list
InList(x, lst) == \E i \in 1..Len(lst) : lst[i] = x

\* set(list)
SetOf(lst) == {lst[i] : i \in 1..Len(lst)}

\* a list has no element twice
DupFree(lst) == \A i, j \in 1..Len(lst) : lst[i] = lst[j] => i = j

(***************************************************************************)
(* list(set(x)).  The order in which a set of strings is listed depends on *)
(* the hash seed of the process and on how the set was filled: each        *)
(* element comes out once, in any order, and sets built in the same way    *)
(* within one process come out in the same order.  The state keeps, for    *)
(* each list x the process has made a set of, the list it got back; a set  *)
(* built for the first time comes out in an order picked then.             *)
(***************************************************************************)
\* set(x) holds each element of x once: the elements of x, each where it
\* comes first
Distinct(x) ==
    LET idx      == [i \in 1..Len(x) |-> <<i, x[i]>>]
        First(p) == \A j \in 1..(p[1] - 1) : x[j] # p[2]
        kept     == SelectSeq(idx, First)
    IN  [i \in 1..Len(kept) |-> kept[i][2]]

\* the lists list(set(x)) may give: each holds every element of x once, in
\* any order
Listings(x) ==
    {l \in [1..Len(Distinct(x)) -> SetOf(x)] :
        \A i, j \in 1..Len(Distinct(x)) : l[i] = l[j] => i = j}

\* list(set(x)) in a process that lists its sets as order does
ListOfSetIn(order, x) == order[x]

RECURSIVE SetOrders(_, _)
\* the ways the process may come to list its sets once it has built those
\* of the lists in X: what it has listed before it lists again in the same
\* way, and a set it builds for the first time in any order
SetOrders(order, X) ==
    IF X \subseteq DOMAIN order THEN {order}
    ELSE LET x == CHOOSE y \in X \ DOMAIN order : TRUE
         IN  UNION {SetOrders([z \in DOMAIN order \cup {x} |->
                                  IF z = x THEN l ELSE order[z]], X) :
                       l \in Listings(x)}

RECURSIVE Arrangements(_)
\* the orders in which the elements of l can come, an element that is in l
\* several times coming as often
Arrangements(l) ==
    IF l = <<>> THEN {<<>>}
    ELSE UNION {LET k == CHOOSE i \in 1..Len(l) :
                            l[i] = e /\ \A j \in 1..(i - 1) : l[j] # e
                IN  {<<e>> \o a :
                        a \in Arrangements(SubSeq(l, 1, k - 1)
                                           \o SubSeq(l, k + 1, Len(l)))} :
                   e \in SetOf(l)}

\* d.setdefault(k, []).append(x); also "if k not in d: d[k] = []" and then
\* d[k].append(x)
DictAppend(d, k, x) ==
    IF DictHas(d, k)
    THEN [d EXCEPT ![CHOOSE i \in 1..Len(d) : d[i][1] = k] =
                       <<k, Append(@[2], x)>>]
    ELSE Append(d, <<k, <<x>>>>)

\* d[k] = v
DictSet(d, k, v) ==
    IF DictHas(d, k)
    THEN [d EXCEPT ![CHOOSE i \in 1..Len(d) : d[i][1] = k] = <<k, v>>]
    ELSE Append(d, <<k, v>>)

(***************************************************************************)
(* str.lower() on the strings of the model that hold an upper-case letter; *)
(* every other string of the model is its own lower-case form.             *)
(***************************************************************************)
LowerTable ==
    LET t ==
  << <<"AP", "ap">>, <<"WD", "wd">>, <<"WS", "ws">>, <<"AT", "at">>,
     <<"RH", "rh">>, <<"CO2", "co2">>, <<"N2O", "n2o">>,
     <<"Pressure (surface)", "pressure (surface)">>,
     <<"Pressure", "pressure">>,
     <<"Surface Wind Speed and direction", "surface wind speed and direction">>,
     <<"Temperature (near surface)", "temperature (near surface)">>,
     <<"Temperature", "temperature">>,
     <<"Water Vapour (surface)", "water vapour (surface)">>,
     <<"Water Vapour (Relative Humidity)", "water vapour (relative humidity)">>,
     <<"Carbon Dioxide", "carbon dioxide">>,
     <<"Carbon Dioxide, Methane and other Greenhouse gases",
       "carbon dioxide, methane and other greenhouse gases">>,
     <<"Tropospheric CO2", "tropospheric co2">>,
     <<"Carbon Monoxide", "carbon monoxide">>,
     <<"Methane", "methane">>,
     <<"Tropospheric CH4", "tropospheric ch4">>,
     <<"Nitrous Oxide", "nitrous oxide">>,
     <<"Ozone", "ozone">>,
     <<"TIMESTAMP", "timestamp">>,
     <<"Flag", "flag">>,
     <<"NbPoints", "nbpoints">>,
     <<"Stdev", "stdev">>,
     <<"LANDING_PAGE", "landing_page">>,
     <<"Landing_Page", "landing_page">> >>
    IN  [s \in SetOf(DictKeys(t)) |-> DictGet(t, s)]

Lower(s) == IF s \in DOMAIN LowerTable THEN LowerTable[s] ELSE s

(***************************************************************************)
(* ACTRIS vocabulary                                                       *)
(***************************************************************************)
STATIC_PARAMETERS ==
    <<"latitude", "longitude", "air_pressure", "barometric_altitude">>

MAPPING_ECV_ACTRIS ==
  << << "Aerosol Optical Properties", <<
        "aerosol particle light absorption coefficient",
        "aerosol particle backscatter coefficient",
        "aerosol particle light extinction coefficient",
        "aerosol particle light hemispheric backscatter coefficient",
        "aerosol particle light scattering coefficient",
        "aerosol particle optical depth"
     >> >>,
     << "Aerosol Chemical Properties", <<
        "aerosol particle aluminium mass concentration",
        "aerosol particle ammonium mass concentration",
        "aerosol particle arsenic mass concentration",
        "aerosol particle barium mass concentration",
        "aerosol particle bromine mass concentration",
        "aerosol particle cadmium mass concentration",
        "aerosol particle calcium mass concentration",
        "aerosol particle carbonate carbon mass concentration",
        "aerosol particle carbon mass concentration",
        "aerosol particle chloride mass concentration",
        "aerosol particle chlorine mass concentration",
        "aerosol particle chromium mass concentration",
        "aerosol particle cobalt mass concentration",
        "aerosol particle copper mass concentration",
        "aerosol particle elemental carbon mass concentration",
        "aerosol particle equivalent black carbon mass concentration",
        "aerosol particle iron mass concentration",
        "aerosol particle lead mass concentration",
        "aerosol particle magnesium mass concentration",
        "aerosol particle manganese mass concentration",
        "aerosol particle mass concentration",
        "aerosol particle mercury mass concentration",
        "aerosol particle molybdenum mass concentration",
        "aerosol particle nickel mass concentration",
        "aerosol particle nitrate mass concentration",
        "aerosol particle organic carbon mass concentration",
        "aerosol particle organics mass concentration",
        "aerosol particle phosphorus mass concentration",
        "aerosol particle potassium mass concentration",
        "aerosol particle rubidium mass concentration",
        "aerosol particle scandium mass concentration",
        "aerosol particle selenium mass concentration",
        "aerosol particle silicon mass concentration",
        "aerosol particle sodium mass concentration",
        "aerosol particle strontium mass concentration",
        "aerosol particle sulfur mass concentration",
        "aerosol particle titanium mass concentration",
        "aerosol particle total carbon mass concentration",
        "aerosol particle vanadium mass concentration",
        "aerosol particle zinc mass concentration",
        "aerosol particle zirconium mass concentration",
        "aerosol particle sulphate mass concentration",
        "aerosol particle iron 57 mass concentration",
        "aerosol particle benzo(b)naphtho(2,1-d)thiophene mass concentration",
        "aerosol particle levoglucosan mass concentration",
        "aerosol particle indeno(1,2,3-cd)pyrene mass concentration",
        "aerosol particle octabromo-1,3,3-trimethyl-1-phenylindane mass concentration",
        "aerosol particle 1,2,3,4,5-pentabromobenzene mass concentration",
        "aerosol particle dechlorane plus anti mass concentration",
        "aerosol particle benzo(c)phenanthrene mass concentration",
        "aerosol particle benzo(e)pyrene mass concentration",
        "aerosol particle benzo(ghi)perylene mass concentration",
        "aerosol particle benzo(j)fluoranthene mass concentration",
        "aerosol particle benzo(k)fluoranthene mass concentration",
        "aerosol particle (Z)-nonachlor mass concentration",
        "aerosol particle cyclopenta(cd)pyrene mass concentration",
        "aerosol particle methanesulfonate mass concentration",
        "aerosol particle dechlorane plus syn mass concentration",
        "aerosol particle PCB 1 mass concentration",
        "aerosol particle PCB 101 mass concentration",
        "aerosol particle PCB 105 mass concentration",
        "aerosol particle PCB 110 mass concentration",
        "aerosol particle PCB 114 mass concentration",
        "aerosol particle PCB 118 mass concentration",
        "aerosol particle PCB 119 mass concentration",
        "aerosol particle PCB 123 mass concentration",
        "aerosol particle PCB 126 mass concentration",
        "aerosol particle PCB 128 mass concentration",
        "aerosol particle PCB 131 mass concentration",
        "aerosol particle PCB 132 mass concentration",
        "aerosol particle PCB 134 mass concentration",
        "aerosol particle PCB 136 mass concentration",
        "aerosol particle PCB 137 mass concentration",
        "aerosol particle PCB 138 mass concentration",
        "aerosol particle PCB 141 mass concentration",
        "aerosol particle PCB 146 mass concentration",
        "aerosol particle PCB 149 mass concentration",
        "aerosol particle PCB 15 mass concentration",
        "aerosol particle PCB 151 mass concentration",
        "aerosol particle PCB 153 mass concentration",
        "aerosol particle PCB 156 mass concentration",
        "aerosol particle PCB 157 mass concentration",
        "aerosol particle PCB 158 mass concentration",
        "aerosol particle PCB 167 mass concentration",
        "aerosol particle PCB 169 mass concentration",
        "aerosol particle PCB 17 mass concentration",
        "aerosol particle PCB 170 mass concentration",
        "aerosol particle PCB 171 mass concentration",
        "aerosol particle PCB 174 mass concentration",
        "aerosol particle PCB 175 mass concentration",
        "aerosol particle PCB 177 mass concentration",
        "aerosol particle PCB 178 mass concentration",
        "aerosol particle PCB 179 mass concentration",
        "aerosol particle PCB 18 mass concentration",
        "aerosol particle PCB 180 mass concentration",
        "aerosol particle PCB 183 mass concentration",
        "aerosol particle PCB 185 mass concentration",
        "aerosol particle PCB 187 mass concentration",
        "aerosol particle PCB 188 mass concentration",
        "aerosol particle PCB 189 mass concentration",
        "aerosol particle PCB 19 mass concentration",
        "aerosol particle PCB 191 mass concentration",
        "aerosol particle PCB 193 mass concentration",
        "aerosol particle PCB 194 mass concentration",
        "aerosol particle PCB 195 mass concentration",
        "aerosol particle PCB 198 mass concentration",
        "aerosol particle PCB 199 mass concentration",
        "aerosol particle PCB 200 mass concentration",
        "aerosol particle PCB 201 mass concentration",
        "aerosol particle PCB 202 mass concentration",
        "aerosol particle PCB 205 mass concentration",
        "aerosol particle PCB 206 mass concentration",
        "aerosol particle PCB 207 mass concentration",
        "aerosol particle PCB 208 mass concentration",
        "aerosol particle PCB 209 mass concentration",
        "aerosol particle PCB 22 mass concentration",
        "aerosol particle PCB 25 mass concentration",
        "aerosol particle PCB 26 mass concentration",
        "aerosol particle PCB 28 mass concentration",
        "aerosol particle PCB 3 mass concentration",
        "aerosol particle PCB 31 mass concentration",
        "aerosol particle PCB 33 mass concentration",
        "aerosol particle PCB 37 mass concentration",
        "aerosol particle PCB 40 mass concentration",
        "aerosol particle PCB 42 mass concentration",
        "aerosol particle PCB 44 mass concentration",
        "aerosol particle PCB 45 mass concentration",
        "aerosol particle PCB 46 mass concentration",
        "aerosol particle PCB 47 mass concentration",
        "aerosol particle PCB 48 mass concentration",
        "aerosol particle PCB 49 mass concentration",
        "aerosol particle PCB 52 mass concentration",
        "aerosol particle PCB 6 mass concentration",
        "aerosol particle PCB 64 mass concentration",
        "aerosol particle PCB 66 mass concentration",
        "aerosol particle PCB 7 mass concentration",
        "aerosol particle PCB 70 mass concentration",
        "aerosol particle PCB 74 mass concentration",
        "aerosol particle PCB 77 mass concentration",
        "aerosol particle PCB 8 mass concentration",
        "aerosol particle PCB 81 mass concentration",
        "aerosol particle PCB 82 mass concentration",
        "aerosol particle PCB 83 mass concentration",
        "aerosol particle PCB 85 mass concentration",
        "aerosol particle PCB 87 mass concentration",
        "aerosol particle PCB 91 mass concentration",
        "aerosol particle PCB 95 mass concentration",
        "aerosol particle PCB 97 mass concentration",
        "aerosol particle PCB 99 mass concentration",
        "aerosol particle carbonate mass concentration",
        "aerosol particle benzo(b)triphenylene mass concentration",
        "aerosol particle dibenzo(a,e)pyrene mass concentration",
        "aerosol particle dibenz(a,h)anthracene mass concentration",
        "aerosol particle dibenzo(a,h)pyrene mass concentration",
        "aerosol particle dibenzo(a,i)pyrene mass concentration",
        "aerosol particle dibenzo(a,l)pyrene mass concentration",
        "aerosol particle dibenzothiophene mass concentration",
        "aerosol particle galactosan mass concentration",
        "aerosol particle gamma-hexachlorocyclohexane mass concentration",
        "aerosol particle glucose mass concentration",
        "aerosol particle heptachlor mass concentration",
        "aerosol particle heptachlor epoxide mass concentration",
        "aerosol particle indene mass concentration",
        "aerosol particle indeno(1,2,3-cd)perylene mass concentration",
        "aerosol particle hexahydroxycyclohexane mass concentration",
        "aerosol particle myo-inositol mass concentration",
        "aerosol particle mannose mass concentration",
        "aerosol particle methanesulfonic acid mass concentration",
        "aerosol particle acer pollen number concentration",
        "aerosol particle alnus pollen number concentration",
        "aerosol particle amaranthaceae pollen number concentration",
        "aerosol particle ambrosia pollen number concentration",
        "aerosol particle artemisia pollen number concentration",
        "aerosol particle betula pollen number concentration",
        "aerosol particle broussonetia pollen number concentration",
        "aerosol particle carpinus pollen number concentration",
        "aerosol particle castanea pollen number concentration",
        "aerosol particle casuarina pollen number concentration",
        "aerosol particle corylus pollen number concentration",
        "aerosol particle cryptomeria pollen number concentration",
        "aerosol particle cupressaceae pollen number concentration",
        "aerosol particle fagus pollen number concentration",
        "aerosol particle fraxinus pollen number concentration",
        "aerosol particle morus pollen number concentration",
        "aerosol particle olea pollen number concentration",
        "aerosol particle ostrya pollen number concentration",
        "aerosol particle picea pollen number concentration",
        "aerosol particle pinaceae pollen number concentration",
        "aerosol particle plantago pollen number concentration",
        "aerosol particle platanus pollen number concentration",
        "aerosol particle poaceae pollen number concentration",
        "aerosol particle populus pollen number concentration",
        "aerosol particle quercus pollen number concentration",
        "aerosol particle rumex pollen number concentration",
        "aerosol particle salix pollen number concentration",
        "aerosol particle total pollen number concentration",
        "aerosol particle ulmus pollen number concentration",
        "aerosol particle urticaceae pollen number concentration",
        "aerosol particle 1,2,3,4-tetrachlorobenzene mass concentration",
        "aerosol particle tetralin mass concentration",
        "aerosol particle 1,2,3-trichlorobenzene mass concentration",
        "aerosol particle 1,2,4,5-tetrachlorobenzene mass concentration",
        "aerosol particle 1,2,4-trichlorobenzene mass concentration",
        "aerosol particle 1,2-dichlorobenzene mass concentration",
        "aerosol particle 1,3,5-trichlorobenzene mass concentration",
        "aerosol particle 1,3-dichlorobenzene mass concentration",
        "aerosol particle 1,4-dichlorobenzene mass concentration",
        "aerosol particle 1-methylnaphthalene mass concentration",
        "aerosol particle 1,2,3,4,6,7,8-heptachlorodibenzo-p-dioxin mass concentration",
        "aerosol particle 1,2,3,4,6,7,8-heptachlorodibenzofuran mass concentration",
        "aerosol particle 1,2,3,4,7,8,9-heptachlorodibenzofuran mass concentration",
        "aerosol particle 1,2,3,4,7,8-hexachlorodibenzo-p-dioxin mass concentration",
        "aerosol particle 1,2,3,4,7,8-hexachlorodibenzofuran mass concentration",
        "aerosol particle 1,2,3,6,7,8-hexachlorodibenzo-p-dioxin mass concentration",
        "aerosol particle 1,2,3,6,7,8-hexachlorodibenzofuran mass concentration",
        "aerosol particle 1,2,3,7,8,9-hexachlorodibenzo-p-dioxin mass concentration",
        "aerosol particle 1,2,3,7,8,9-hexachlorodibenzofuran mass concentration",
        "aerosol particle 1,2,3,7,8-pentachlorodibenzo-p-dioxin mass concentration",
        "aerosol particle 1,2,3,7,8-pentachlorodibenzofuran mass concentration",
        "aerosol particle 2-chloronaphthalene mass concentration",
        "aerosol particle 2-methylerythritol mass concentration",
        "aerosol particle 2-methylnaphthalene mass concentration",
        "aerosol particle 2-methylthreitol mass concentration",
        "aerosol particle 2,3,4,6,7,8-hexachlorodibenzofuran mass concentration",
        "aerosol particle 2,3,4,7,8-pentachlorodibenzofuran mass concentration",
        "aerosol particle 2,3,7,8-tetrachlorodibenzo-p-dioxin mass concentration",
        "aerosol particle 2,3,7,8-tetrachlorodibenzofuran mass concentration",
        "aerosol particle 5-methylchrysene mass concentration",
        "aerosol particle allyl 2,4,6-tribromophenyl ether mass concentration",
        "aerosol particle 2-bromoallyl-2,4,6-tribromophenyl ether mass concentration",
        "aerosol particle 2,2',4,5,5'-pentabromobiphenyl mass concentration",
        "aerosol particle 2,2',4,4',6-pentabromodiphenyl ether mass concentration",
        "aerosol particle 2,3',4,4',6-pentabromodiphenyl ether mass concentration",
        "aerosol particle 3,3',4,4',5-pentabromodiphenyl ether mass concentration",
        "aerosol particle 2,2',3,4,4',5'-hexabromodiphenyl ether mass concentration",
        "aerosol particle 4,4'-dibromodiphenyl ether mass concentration",
        "aerosol particle 2,2',4,4',5,5'-hexabromodiphenyl ether mass concentration",
        "aerosol particle 2,2',4,4',5,6'-hexabromodiphenyl ether mass concentration",
        "aerosol particle hexabromodiphenyl ether mass concentration",
        "aerosol particle 2,3,3',4,4',5-hexabromodiphenyl ether mass concentration",
        "aerosol particle 2,3,4,4',5,6-hexabromodiphenyl ether mass concentration",
        "aerosol particle 2,2',4-tribromodiphenyl ether mass concentration",
        "aerosol particle 2,2',3,4,4',5',6-heptabromodiphenyl ether mass concentration",
        "aerosol particle 2,2',3,4,4',6,6'-heptabromodiphenyl ether mass concentration",
        "aerosol particle 2,3,3',4,4',5,6-heptabromodiphenyl ether mass concentration",
        "aerosol particle 2,3,3',4,4',5',6-heptabromodiphenyl ether mass concentration",
        "aerosol particle 2,2',3,3',4,4',6,6'-octabromodiphenyl ether mass concentration",
        "aerosol particle 2,2',3,3',5,5',6,6'-octabromodiphenyl ether mass concentration",
        "aerosol particle 2,2',3,4,4',5,5',6-octabromodiphenyl ether mass concentration",
        "aerosol particle 2,3,3',4,4',5,5',6-octabromodiphenyl ether mass concentration",
        "aerosol particle nonabromodiphenyl ether mass concentration",
        "aerosol particle 2,2',3,3',4,4',5,6,6'-nonabromodiphenyl ether mass concentration",
        "aerosol particle decabromodiphenyl ether mass concentration",
        "aerosol particle 2,4,4'-tribromodiphenyl ether mass concentration",
        "aerosol particle 2,2',4,4'-tetrabromodiphenyl ether mass concentration",
        "aerosol particle 2,2',4,5'-tetrabromodiphenyl ether mass concentration",
        "aerosol particle 2,3',4,4'-tetrabromodiphenyl ether mass concentration",
        "aerosol particle 2,4-dibromodiphenyl ether mass concentration",
        "aerosol particle 2,3',4',6-tetrabromodiphenyl ether mass concentration",
        "aerosol particle 2,2',3,4,4'-pentabromodiphenyl ether mass concentration",
        "aerosol particle 2,2',4,4',5-pentabromodiphenyl ether mass concentration",
        "aerosol particle bis(2-ethylhexyl) tetrabromophthalate mass concentration",
        "aerosol particle 2,3-dibromopropyl-2,4,6-tribromophenyl ether mass concentration",
        "aerosol particle hexabromobenzene mass concentration",
        "aerosol particle hexabromocyclododecane mass concentration",
        "aerosol particle hexachlorobenzene mass concentration",
        "aerosol particle hexachlorobutadiene mass concentration",
        "aerosol particle octachlorodibenzo-p-dioxin mass concentration",
        "aerosol particle octachlorodibenzofuran mass concentration",
        "aerosol particle pentabromobenzyl acrylate mass concentration",
        "aerosol particle pentabromoethylbenzene mass concentration",
        "aerosol particle pentabromotoluene mass concentration",
        "aerosol particle acenaphthene mass concentration",
        "aerosol particle acenaphthylene mass concentration",
        "aerosol particle anthanthrene mass concentration",
        "aerosol particle anthracene mass concentration",
        "aerosol particle benzanthracene mass concentration",
        "aerosol particle benzo(a)pyrene mass concentration",
        "aerosol particle benz(e)acephenanthrylene mass concentration",
        "aerosol particle 1,2-dihydrobenz(j)aceanthrylene mass concentration",
        "aerosol particle chrysene mass concentration",
        "aerosol particle chrysene triphenylene mass concentration",
        "aerosol particle coronene mass concentration",
        "aerosol particle fluoranthene mass concentration",
        "aerosol particle fluorene mass concentration",
        "aerosol particle naphthalene mass concentration",
        "aerosol particle perylene mass concentration",
        "aerosol particle phenanthrene mass concentration",
        "aerosol particle pyrene mass concentration",
        "aerosol particle retene mass concentration",
        "aerosol particle beta-hexachlorocyclohexane mass concentration",
        "aerosol particle beta-endosulfan mass concentration",
        "aerosol particle dieldrin mass concentration",
        "aerosol particle endosulfan mass concentration",
        "aerosol particle endrin mass concentration",
        "aerosol particle methoxychlor mass concentration",
        "aerosol particle mirex mass concentration",
        "aerosol particle oxychlordane mass concentration",
        "aerosol particle 2,3,5,6-tetrabromo-p-xylene mass concentration",
        "aerosol particle p,p-DDD mass concentration",
        "aerosol particle p,p-DDE mass concentration",
        "aerosol particle p,p-DDT mass concentration",
        "aerosol particle (E)-chlordane mass concentration",
        "aerosol particle (E)-nonachlor mass concentration",
        "aerosol particle formate mass concentration",
        "aerosol particle oxalate mass concentration",
        "aerosol particle acetate mass concentration",
        "aerosol particle ammonium nitrate mass concentration",
        "aerosol particle bromide mass concentration",
        "aerosol particle fluoride mass concentration",
        "aerosol particle iodide mass concentration",
        "aerosol particle nitrite mass concentration",
        "aerosol particle aldrin mass concentration",
        "aerosol particle tetrabromo-o-chlorotoluene mass concentration",
        "aerosol particle pentachloroanisole mass concentration",
        "aerosol particle pentachlorobenzene mass concentration",
        "aerosol particle alpha-hexachlorocyclohexane mass concentration",
        "aerosol particle alpha-endosulfan mass concentration",
        "aerosol particle (Z)-chlordane mass concentration",
        "aerosol particle octachlorostyrene mass concentration",
        "aerosol particle tetrachloroveratrole mass concentration",
        "aerosol particle trichloroveratrole mass concentration",
        "aerosol particle trifluralin mass concentration",
        "aerosol particle beryllium mass concentration",
        "aerosol particle bismuth mass concentration",
        "aerosol particle antimony mass concentration",
        "aerosol particle cerium mass concentration",
        "aerosol particle cesium mass concentration",
        "aerosol particle dysprosium mass concentration",
        "aerosol particle erbium mass concentration",
        "aerosol particle europium mass concentration",
        "aerosol particle gadolinium mass concentration",
        "aerosol particle gallium mass concentration",
        "aerosol particle germanium mass concentration",
        "aerosol particle hafnium mass concentration",
        "aerosol particle holmium mass concentration",
        "aerosol particle lanthanum mass concentration",
        "aerosol particle lithium mass concentration",
        "aerosol particle lutetium mass concentration",
        "aerosol particle neodymium mass concentration",
        "aerosol particle niobium mass concentration",
        "aerosol particle praseodymium mass concentration",
        "aerosol particle ruthenium mass concentration",
        "aerosol particle samarium mass concentration",
        "aerosol particle tantalum mass concentration",
        "aerosol particle terbium mass concentration",
        "aerosol particle thallium mass concentration",
        "aerosol particle thorium mass concentration",
        "aerosol particle thulium mass concentration",
        "aerosol particle tin mass concentration",
        "aerosol particle tungsten mass concentration",
        "aerosol particle uranium mass concentration",
        "aerosol particle ytterbium mass concentration",
        "aerosol particle yttrium mass concentration",
        "aerosol particle photomirex mass concentration",
        "aerosol particle cellulose mass concentration",
        "aerosol particle fructose mass concentration",
        "aerosol particle sucrose mass concentration",
        "aerosol particle trehalose mass concentration",
        "aerosol particle arabitol mass concentration",
        "aerosol particle erythritol mass concentration",
        "aerosol particle o,p-DDD mass concentration",
        "aerosol particle o,p-DDE mass concentration",
        "aerosol particle o,p-DDT mass concentration",
        "aerosol particle mineral dust mass concentration",
        "aerosol particle phosphate mass concentration",
        "aerosol particle mannitol mass concentration",
        "aerosol particle mannosan mass concentration",
        "aerosol particle PCB 130 and PCB 176 mass concentration",
        "aerosol particle PCB 144 and PCB 135 mass concentration",
        "aerosol particle PCB 16 and PCB 32 mass concentration",
        "aerosol particle PCB 17 and PCB 18 mass concentration",
        "aerosol particle PCB 172 and PCB 197 mass concentration",
        "aerosol particle PCB 178 and PCB 129 mass concentration",
        "aerosol particle PCB 196 and PCB 203 mass concentration",
        "aerosol particle PCB 201 and PCB 157 mass concentration",
        "aerosol particle PCB 24 and PCB 27 mass concentration",
        "aerosol particle PCB 28 and PCB 31 mass concentration",
        "aerosol particle PCB 4 and PCB 10 mass concentration",
        "aerosol particle PCB 41 and PCB 71 mass concentration",
        "aerosol particle PCB 56 and PCB 60 mass concentration",
        "aerosol particle PCB 70 and PCB 60 mass concentration",
        "aerosol particle PCB 70 and PCB 76 mass concentration",
        "aerosol particle PCB 8 and PCB 5 mass concentration",
        "aerosol particle PCB 84 and PCB 89 mass concentration",
        "aerosol particle dibenzo(ac,ah)anthracenes mass concentration",
        "aerosol particle PBDE 25 and PBDE 28 mass concentration",
        "aerosol particle PBDE 85 and PBDE 126 mass concentration",
        "aerosol particle benz(bj)fluoranthenes mass concentration",
        "aerosol particle benz(bjk)fluoranthenes mass concentration",
        "aerosol particle benz(bk)fluoranthenes mass concentration",
        "aerosol particle benz(jk)fluoranthenes mass concentration",
        "aerosol particle volatile mass concentration",
        "aerosol particle non-volatile mass concentration",
        "aerosol particle hydrogen ion mass concentration",
        "aerosol particle positive ion mass concentration"
     >> >>,
     << "Aerosol Physical Properties", <<
        "aerosol particle number concentration",
        "cloud condensation nuclei number concentration",
        "aerosol particle nano number concentration",
        "aerosol particle fine-mode number concentration",
        "aerosol particle number size distribution",
        "cloud condensation nuclei number size distribution",
        "aerosol particle fine-mode number size distribution",
        "aerosol particle nano number size distribution",
        "naturally negatively charged nano aerosol particle number size distribution",
        "naturally positively charged nano aerosol particle number size distribution",
        "aerosol particle volatile number size distribution",
        "aerosol particle non-volatile number size distribution"
     >> >>,
     << "NO2", <<
        "nitrogen dioxide amount fraction",
        "nitrogen dioxide mass concentration",
        "nitrogen dioxide number concentration"
     >> >>
  >>

\* the inner loop of _reverse_mapping, "for value in values: ...", as one step:
\* key is appended to the entry of every value, once per occurrence of the
\* value in values; the values not yet in ret get their entries after those
\* of ret, in the order of their first occurrence
reverse_values(ret, key, values) ==
    LET Count(v) == Cardinality({j \in 1..Len(values) : values[j] = v})
        Keys(n)  == [j \in 1..n |-> key]
        old      == [i \in 1..Len(ret) |->
                        <<ret[i][1], ret[i][2] \o Keys(Count(ret[i][1]))>>]
        idx      == [j \in 1..Len(values) |-> <<j, values[j]>>]
        First(p) == /\ ~DictHas(ret, p[2])
                    /\ \A k \in 1..(p[1] - 1) : values[k] # p[2]
        fresh    == SelectSeq(idx, First)
    IN  old \o [j \in 1..Len(fresh) |->
                  <<fresh[j][2], Keys(Count(fresh[j][2]))>>]

RECURSIVE reverse_items(_, _, _)
\* the outer loop of _reverse_mapping: for key, values in mapping.items()
reverse_items(ret, mapping, i) ==
    IF i > Len(mapping) THEN ret
    ELSE reverse_items(reverse_values(ret, mapping[i][1], mapping[i][2]),
                       mapping, i + 1)

reverse_mapping(mapping) == reverse_items(<<>>, mapping, 1)

MAPPING_ACTRIS_ECV == reverse_mapping(MAPPING_ECV_ACTRIS)

\* MAPPING_ECV_ACTRIS.get(e, []): the variables listed under an ECV name
actris_variables_for(e) == DictGetOr(MAPPING_ECV_ACTRIS, e, <<>>)

\* MAPPING_ACTRIS_ECV[v], v being a key of the table: the list object the
\* table holds, as it is now
actris_list_now(v) ==
    IF v \in DOMAIN actris_lists THEN actris_lists[v]
    ELSE DictGet(MAPPING_ACTRIS_ECV, v)

\* MAPPING_ACTRIS_ECV.get(v, []): the ECV names listed under a variable
actris_ecvs_for(v) ==
    IF DictHas(MAPPING_ACTRIS_ECV, v) THEN actris_list_now(v) ELSE <<>>

(***************************************************************************)
(* ICOS vocabulary                                                         *)
(***************************************************************************)
ICOS_VAR_TO_ECV_MAPPING ==
  << <<"AP", <<"Pressure (surface)", "Pressure", "ap">>>>,
     <<"WD", <<"Surface Wind Speed and direction", "wd">>>>,
     <<"WS", <<"Surface Wind Speed and direction", "ws">>>>,
     <<"AT", <<"Temperature (near surface)", "Temperature", "at">>>>,
     <<"RH", <<"Water Vapour (surface)", "Water Vapour (Relative Humidity)",
               "rh">>>>,
     <<"co2", <<"Carbon Dioxide",
                "Carbon Dioxide, Methane and other Greenhouse gases",
                "Tropospheric CO2", "co2">>>>,
     <<"co", <<"Carbon Monoxide",
               "Carbon Dioxide, Methane and other Greenhouse gases", "co">>>>,
     <<"ch4", <<"Methane",
                "Carbon Dioxide, Methane and other Greenhouse gases",
                "Tropospheric CH4", "ch4">>>>,
     <<"n2o", <<"Nitrous Oxide",
                "Carbon Dioxide, Methane and other Greenhouse gases",
                "n2o">>>> >>

RECURSIVE lowercase_keys(_, _, _)
\* {k.lower(): v for k, v in mapping.items()}
lowercase_keys(ret, mapping, i) ==
    IF i > Len(mapping) THEN ret
    ELSE lowercase_keys(DictSet(ret, Lower(mapping[i][1]), mapping[i][2]),
                        mapping, i + 1)

\* _ICOS_VAR_lowercase_TO_ECV_MAPPING as it is built when the module is
\* loaded, with, for each key, the place in _ICOS_VAR_TO_ECV_MAPPING
\* of the list object that is its value
ICOS_VAR_lowercase_TO_ECV_PLACE ==
    lowercase_keys(<<>>, [i \in 1..Len(ICOS_VAR_TO_ECV_MAPPING) |->
                            <<ICOS_VAR_TO_ECV_MAPPING[i][1], i>>], 1)

\* _ICOS_VAR_lowercase_TO_ECV_MAPPING: its values are the list objects of
\* _ICOS_VAR_TO_ECV_MAPPING, read as they are now
ICOS_VAR_lowercase_TO_ECV_MAPPING ==
    [k \in 1..Len(ICOS_VAR_lowercase_TO_ECV_PLACE) |->
        <<ICOS_VAR_lowercase_TO_ECV_PLACE[k][1],
          ecv_lists[ICOS_VAR_lowercase_TO_ECV_PLACE[k][2]]>>]

\* a build of the reverse table that assigns instead of appending:
\* _ECV_TO_ICOS_VARS_lowercase[ecv] = [icos_var]
ecv_to_icos_add_overwrite(ret, ecv, icos_var) == DictSet(ret, ecv, <<icos_var>>)

\* _ECV_TO_ICOS_VARS_lowercase.setdefault(ecv, []).append(icos_var)
ecv_to_icos_add(ret, ecv, icos_var) == DictAppend(ret, ecv, icos_var)

RECURSIVE ecv_to_icos_ecvs(_, _, _, _)
\* for ecv in ecvs.  Len(ret) < 0 never holds: it has ret, the table as the
\* steps before left it, evaluated at every step and not at the end
ecv_to_icos_ecvs(ret, icos_var, ecvs, j) ==
    IF j > Len(ecvs) \/ Len(ret) < 0 THEN ret
    ELSE ecv_to_icos_ecvs(ecv_to_icos_add(ret, ecvs[j], icos_var),
                          icos_var, ecvs, j + 1)

RECURSIVE ecv_to_icos_items(_, _, _)
\* for icos_var, ecvs in _ICOS_VAR_lowercase_TO_ECV_MAPPING.items()
ecv_to_icos_items(ret, mapping, i) ==
    IF i > Len(mapping) THEN ret
    ELSE ecv_to_icos_items(
             ecv_to_icos_ecvs(ret, mapping[i][1], mapping[i][2], 1),
             mapping, i + 1)

\* built when the module is loaded, from the lists as constructed
ECV_TO_ICOS_VARS_lowercase ==
    ecv_to_icos_items(<<>>,
                      lowercase_keys(<<>>, ICOS_VAR_TO_ECV_MAPPING, 1), 1)

ICOS_VAR_lowercase_TO_SPEC ==
  << <<"ap", "http://meta.icos-cp.eu/resources/cpmeta/atcMtoL2DataObject">>,
     <<"wd", "http://meta.icos-cp.eu/resources/cpmeta/atcMtoL2DataObject">>,
     <<"ws", "http://meta.icos-cp.eu/resources/cpmeta/atcMtoL2DataObject">>,
     <<"at", "http://meta.icos-cp.eu/resources/cpmeta/atcMtoL2DataObject">>,
     <<"rh", "http://meta.icos-cp.eu/resources/cpmeta/atcMtoL2DataObject">>,
     <<"co2", "http://meta.icos-cp.eu/resources/cpmeta/atcCo2Product">>,
     <<"co", "http://meta.icos-cp.eu/resources/cpmeta/atcCoL2DataObject">>,
     <<"ch4", "http://meta.icos-cp.eu/resources/cpmeta/atcCh4Product">>,
     <<"n2o", "http://meta.icos-cp.eu/resources/cpmeta/atcN2oL2DataObject">> >>

RECURSIVE spec_to_var_items(_, _, _)
\* for k, v in _ICOS_VAR_lowercase_TO_SPEC.items():
\*     _SPEC_TO_ICOS_VAR_lowercase.setdefault(v, []).append(k)
spec_to_var_items(ret, mapping, i) ==
    IF i > Len(mapping) THEN ret
    ELSE spec_to_var_items(DictAppend(ret, mapping[i][2], mapping[i][1]),
                           mapping, i + 1)

SPEC_TO_ICOS_VAR_lowercase ==
    spec_to_var_items(<<>>, ICOS_VAR_lowercase_TO_SPEC, 1)

(***************************************************************************)
(* Vocabulary lookups                                                      *)
(***************************************************************************)
VocabIdle ==
    [provider |-> "none", e |-> None, v |-> None, fwd |-> FALSE, rev |-> FALSE]

\* v in MAPPING_ECV_ACTRIS[e] and e in MAPPING_ACTRIS_ECV[v]
ActrisLookup(e, v) ==
    /\ vq = VocabIdle
    /\ vq' = [provider |-> "actris", e |-> e, v |-> v,
              fwd |-> InList(v, actris_variables_for(e)),
              rev |-> InList(e, actris_ecvs_for(v))]
    /\ UNCHANGED <<set_order, frame_order, catalog, fault, aq, sparql, iq,
                   remote, rd, portal, ird, hist, ecv_lists, ecv_cache,
                   actris_lists, actris_vars>>

\* v.lower() in _ECV_TO_ICOS_VARS_lowercase[e] and
\* e in _ICOS_VAR_lowercase_TO_ECV_MAPPING[v.lower()]
IcosLookup(e, v) ==
    /\ vq = VocabIdle
    /\ vq' = [provider |-> "icos", e |-> e, v |-> v,
              fwd |-> InList(Lower(v),
                             DictGetOr(ECV_TO_ICOS_VARS_lowercase, e, <<>>)),
              rev |-> InList(e, DictGetOr(ICOS_VAR_lowercase_TO_ECV_MAPPING,
                                          Lower(v), <<>>))]
    /\ UNCHANGED <<set_order, frame_order, catalog, fault, aq, sparql, iq,
                   remote, rd, portal, ird, hist, ecv_lists, ecv_cache,
                   actris_lists, actris_vars>>

(***************************************************************************)
(* Timestamps.  A date string is modelled by its <<year, month, day>>;     *)
(* pandas.to_datetime turns it into a point of the time line, here the     *)
(* count of days on a calendar of 31-day months, which orders dates as     *)
(* the time line does.  All dates of the model carry the same time zone.   *)
(***************************************************************************)
to_datetime(t) == (t[1] * 12 + (t[2] - 1)) * 31 + t[3]

D20200101 == <<2020, 1, 1>>
D20200301 == <<2020, 3, 1>>
D20200401 == <<2020, 4, 1>>
D20200601 == <<2020, 6, 1>>
D20201231 == <<2020, 12, 31>>
D20210101 == <<2021, 1, 1>>
D20210201 == <<2021, 2, 1>>

\* an optional argument: None, or a list
NoneArg == [given |-> FALSE, v |-> <<>>]
ListArg(lst) == [given |-> TRUE, v |-> lst]

(***************************************************************************)
(* ACTRIS metadata service: raw records                                    *)
(*                                                                         *)
(* keys is the set of keys the JSON record holds; a field whose key is     *)
(* absent is never read.  "ecv_variables" and "time_period" are the        *)
(* top-level keys the filters of query_datasets_stations read from the     *)
(* raw record.                                                             *)
(***************************************************************************)
StandardKeys ==
    {"md_identification.title", "md_distribution_information",
     "md_content_information.attribute_descriptions", "ex_temporal_extent"}

Distribution(id) ==
    << [dataset_url |-> id \o ".dods", protocol |-> "OPeNDAP"],
       [dataset_url |-> id \o ".nc", protocol |-> "HTTP"],
       [dataset_url |-> id \o ".ftp", protocol |-> "FTP"] >>

Raw(id, attrs, begin, end) ==
    [id |-> id,
     keys |-> StandardKeys,
     title |-> "title of " \o id,
     md_distribution_information |-> Distribution(id),
     attribute_descriptions |-> attrs,
     time_period_begin |-> begin,
     time_period_end |-> end,
     ecv_variables |-> <<>>,
     time_period |-> <<>>]

\* the record of the end-to-end example: its only qualifying attribute maps
\* to NO2
RecNO2 ==
    Raw("ds-no2", <<"ozone amount fraction", "nitrogen dioxide amount fraction">>,
        D20200101, D20200601)

\* several attributes, two of them of the same ECV
RecAerosol ==
    Raw("ds-aer",
        <<"aerosol particle light absorption coefficient",
          "aerosol particle number concentration",
          "aerosol particle optical depth">>,
        D20210101, D20210201)

\* no attribute of the vocabulary
RecOzone == Raw("ds-o3", <<"ozone amount fraction">>, D20200301, D20200401)

\* a record that also carries the top-level keys the filters read
RecTagged ==
    [Raw("ds-tag", <<"aerosol particle optical depth">>, D20200101, D20200601)
        EXCEPT !.keys = StandardKeys \cup {"ecv_variables", "time_period"},
               !.ecv_variables = <<"NO2">>,
               !.time_period = <<D20210101, D20210201>>]

\* a malformed record: md_identification holds no title
RecNoTitle ==
    [Raw("ds-bad", <<"nitrogen dioxide mass concentration">>,
         D20200101, D20200601)
        EXCEPT !.keys = StandardKeys \ {"md_identification.title"}]

RawPool == {RecNO2, RecAerosol, RecOzone, RecTagged, RecNoTitle}

Facilities == {"XY12", "ZZ99"}

\* the most raw records the metadata service holds in all
MaxRecs == 2

RECURSIVE Paginate(_, _)
\* the pages the service cuts a facility's records into
Paginate(recs, ps) ==
    IF Len(recs) = 0 THEN <<>>
    ELSE IF Len(recs) <= ps THEN <<recs>>
    ELSE <<SubSeq(recs, 1, ps)>> \o Paginate(SubSeq(recs, ps + 1, Len(recs)), ps)

RECURSIVE SumLen(_, _)
SumLen(f, S) ==
    IF S = {} THEN 0
    ELSE LET c == CHOOSE x \in S : TRUE IN Len(f[c]) + SumLen(f, S \ {c})

\* the metadata services that hold at most n records
CatalogsUpTo(n) ==
    {[c \in Facilities |-> Paginate(f[c], ps)] :
        f \in {g \in [Facilities ->
                          UNION {[1..k -> RawPool] : k \in 0..MaxRecs}] :
                    SumLen(g, Facilities) <= n},
        ps \in {1, 2}}

NoFault == [code |-> None, page |-> -1, exc |-> None]

Faults ==
    {NoFault,
     [code |-> "XY12", page |-> 0, exc |-> "HTTPError"],
     [code |-> "XY12", page |-> 1, exc |-> "ConnectionError"]}

\* requests.get(url) ... response.json() for
\* url = f"{REST_URL_PATH}/metadata/facility/{code}/page/{page}"
GetPage(cat, flt, code, page) ==
    IF flt.code = code /\ flt.page = page
    THEN [exc |-> flt.exc, datasets |-> <<>>]
    ELSE [exc |-> None,
          datasets |-> IF page + 1 <= Len(cat[code])
                       THEN cat[code][page + 1] ELSE <<>>]

RECURSIVE fetch_pages_overwrite(_, _, _, _, _)
\* a loop that keeps the last page only: "all_datasets = datasets" for
\* "all_datasets.extend(datasets)"
fetch_pages_overwrite(cat, flt, code, page, st) ==
    LET r  == GetPage(cat, flt, code, page)
        rq == Append(st.requests, <<code, page>>)
    IN  IF r.exc # None
        THEN [st EXCEPT !.requests = rq, !.exc = r.exc]
        ELSE IF r.datasets = <<>>
        THEN [st EXCEPT !.requests = rq]
        ELSE fetch_pages_overwrite(cat, flt, code, page + 1,
                                   [st EXCEPT !.requests = rq,
                                              !.all_datasets = r.datasets])

RECURSIVE fetch_pages_swallow(_, _, _, _, _)
\* a loop that gives up on the facility when a request fails and goes on
\* with what it has: "break" for "raise" in the except clauses
fetch_pages_swallow(cat, flt, code, page, st) ==
    LET r  == GetPage(cat, flt, code, page)
        rq == Append(st.requests, <<code, page>>)
    IN  IF r.exc # None \/ r.datasets = <<>>
        THEN [st EXCEPT !.requests = rq]
        ELSE fetch_pages_swallow(cat, flt, code, page + 1,
                                 [st EXCEPT !.requests = rq,
                                            !.all_datasets = @ \o r.datasets])

RECURSIVE fetch_pages(_, _, _, _, _)
\* while True: one facility's pages, from `page` on; st holds all_datasets,
\* the requests made so far and the exception, if one was raised
fetch_pages(cat, flt, code, page, st) ==
    LET r  == GetPage(cat, flt, code, page)
        rq == Append(st.requests, <<code, page>>)
    IN  IF r.exc # None
        THEN [st EXCEPT !.requests = rq, !.exc = r.exc]
        ELSE IF r.datasets = <<>>
        THEN [st EXCEPT !.requests = rq]
        ELSE fetch_pages(cat, flt, code, page + 1,
                         [st EXCEPT !.requests = rq,
                                    !.all_datasets = @ \o r.datasets])

RECURSIVE fetch_codes(_, _, _, _, _)
\* for code in codes
fetch_codes(cat, flt, codes, i, st) ==
    IF i > Len(codes) \/ st.exc # None THEN st
    ELSE fetch_codes(cat, flt, codes, i + 1,
                     fetch_pages(cat, flt, codes[i], 0, [st EXCEPT !.code = codes[i]]))

\* a list that outlives the call (a module-level list, or a mutable default
\* argument): it still holds what the call before left in it
all_datasets_left_over == aq.all_datasets

\* all_datasets = []
all_datasets_at_entry == <<>>

fetch_all(cat, flt, codes) ==
    fetch_codes(cat, flt, codes, 1,
                [all_datasets |-> all_datasets_at_entry, requests |-> <<>>,
                 exc |-> None, code |-> None])

\* set(a).isdisjoint(b)
isdisjoint(a, b) == SetOf(a) \cap SetOf(b) = {}

\* the lambda of the variables_list filter reads ds['ecv_variables']
ecv_filter_raises(ds, variables_list) ==
    variables_list.given /\ "ecv_variables" \notin ds.keys

\* not _variables.isdisjoint(ds['ecv_variables'])
ecv_filter_keeps(ds, variables_list) ==
    ~variables_list.given \/ ~isdisjoint(variables_list.v, ds.ecv_variables)

\* the lambda of the temporal_extent filter reads ds['time_period']
time_filter_raises(ds, temporal_extent) ==
    temporal_extent.given /\ "time_period" \notin ds.keys

\* not (to_datetime(ds['time_period'][0]) > t1
\*      or to_datetime(ds['time_period'][1]) < t0)
time_filter_keeps(ds, temporal_extent) ==
    \/ ~temporal_extent.given
    \/ LET t0 == to_datetime(temporal_extent.v[1])
           t1 == to_datetime(temporal_extent.v[2])
       IN  ~(\/ to_datetime(ds.time_period[1]) > t1
             \/ to_datetime(ds.time_period[2]) < t0)

\* the keys the loop body reads from a raw record; a missing one raises
\* KeyError
body_raises(ds) == ~(StandardKeys \subseteq ds.keys)

RECURSIVE dataset_urls(_, _)
\* [{'url': entry['dataset_url'], 'type': entry['protocol']}
\*  for entry in md_distribution_information
\*  if entry['protocol'] in ['OPeNDAP', 'HTTP']]
dataset_urls(md_distribution_information, i) ==
    IF i > Len(md_distribution_information) THEN <<>>
    ELSE LET entry == md_distribution_information[i]
         IN  (IF entry.protocol \in {"OPeNDAP", "HTTP"}
              THEN <<[url |-> entry.dataset_url, type |-> entry.protocol]>>
              ELSE <<>>)
             \o dataset_urls(md_distribution_information, i + 1)

RECURSIVE extend_mapped_ecvs(_, _)
\* for attribute in attribute_descriptions:
\*     try: mapped_ecvs.extend(MAPPING_ACTRIS_ECV[attribute])
\*     except KeyError: pass
extend_mapped_ecvs(attribute_descriptions, i) ==
    IF i > Len(attribute_descriptions) THEN <<>>
    ELSE (IF DictHas(MAPPING_ACTRIS_ECV, attribute_descriptions[i])
          THEN actris_list_now(attribute_descriptions[i])
          ELSE <<>>)
         \o extend_mapped_ecvs(attribute_descriptions, i + 1)

\* the list left as the loop built it, "mapped_ecvs = list(set(mapped_ecvs))"
\* left out
mapped_ecvs_not_unique(order, attribute_descriptions) ==
    extend_mapped_ecvs(attribute_descriptions, 1)

\* mapped_ecvs = list(set(mapped_ecvs))
mapped_ecvs_of(order, attribute_descriptions) ==
    ListOfSetIn(order, extend_mapped_ecvs(attribute_descriptions, 1))

\* platform_id = code: the loop variable of "for code in codes", read after
\* that loop has ended
platform_id_of(code) == code

\* ecv_dataset = {'title': ..., 'urls': ..., 'layers': None, ...}
ecv_dataset(order, ds, code) ==
    [title |-> ds.title,
     urls |-> dataset_urls(ds.md_distribution_information, 1),
     layers |-> None,
     ecv_variables |-> mapped_ecvs_of(order, ds.attribute_descriptions),
     time_period |-> <<ds.time_period_begin, ds.time_period_end>>,
     platform_id |-> platform_id_of(code)]

\* if mapped_ecvs: all_ecv_dataset.append(ecv_dataset)
append_if_mapped(all_ecv_dataset, d) ==
    IF d.ecv_variables # <<>> THEN Append(all_ecv_dataset, d)
    ELSE all_ecv_dataset

RECURSIVE normalise(_, _, _, _, _, _, _)
\* for dataset in all_datasets, all_datasets being the lazily filtered
\* list: each record goes through the filters and then through the body
normalise(order, all_datasets, i, variables_list, temporal_extent, code, out) ==
    IF i > Len(all_datasets) THEN [exc |-> None, value |-> out]
    ELSE LET ds  == all_datasets[i]
             nxt == normalise(order, all_datasets, i + 1, variables_list,
                              temporal_extent, code, out)
         IN  IF ecv_filter_raises(ds, variables_list)
             THEN [exc |-> "KeyError", value |-> <<>>]
             ELSE IF ~ecv_filter_keeps(ds, variables_list) THEN nxt
             ELSE IF time_filter_raises(ds, temporal_extent)
             THEN [exc |-> "KeyError", value |-> <<>>]
             ELSE IF ~time_filter_keeps(ds, temporal_extent) THEN nxt
             ELSE IF body_raises(ds)
             THEN [exc |-> "KeyError", value |-> <<>>]
             ELSE normalise(order, all_datasets, i + 1, variables_list,
                            temporal_extent, code,
                            append_if_mapped(out, ecv_dataset(order, ds, code)))

AqIdle ==
    [status |-> "idle", codes |-> <<>>, variables_list |-> NoneArg,
     temporal_extent |-> NoneArg, value |-> <<>>, exc |-> None,
     requests |-> <<>>, all_datasets |-> <<>>]

TemporalExtents ==
    {NoneArg, ListArg(<<D20200301, D20200401>>),
     ListArg(<<D20210101, D20210201>>), ListArg(<<D20200601, D20201231>>)}

\* what the call leaves: the value returned or the exception raised, with
\* the requests made and the records fetched (all_datasets before the
\* filters); f is the outcome of the fetch loop, n that of the loop over
\* the records
actris_outcome(codes, variables_list, temporal_extent, f, n) ==
    [status |-> IF f.exc = None /\ n.exc = None THEN "returned" ELSE "raised",
     codes |-> codes,
     variables_list |-> variables_list,
     temporal_extent |-> temporal_extent,
     value |-> IF f.exc = None /\ n.exc = None THEN n.value ELSE <<>>,
     exc |-> IF f.exc # None THEN f.exc ELSE n.exc,
     requests |-> f.requests,
     all_datasets |-> f.all_datasets]

\* the part of query_datasets_stations after the fetch loop, f being the
\* outcome of that loop; the process lists the ECV sets of the records
\* fetched as order does
actris_after_fetch(codes, variables_list, temporal_extent, f) ==
    \E order \in SetOrders(set_order,
                  IF f.exc # None THEN {}
                  ELSE {extend_mapped_ecvs(
                            f.all_datasets[i].attribute_descriptions, 1) :
                               i \in 1..Len(f.all_datasets)}) :
        /\ aq' = actris_outcome(codes, variables_list, temporal_extent, f,
                     IF f.exc # None THEN [exc |-> None, value |-> <<>>]
                     ELSE normalise(order, f.all_datasets, 1, variables_list,
                                    temporal_extent, f.code, <<>>))
        /\ set_order' = order

\* query_datasets_stations(codes, variables_list, temporal_extent)
query_datasets_stations(codes, variables_list, temporal_extent) ==
    /\ aq.status = "idle"
    /\ actris_after_fetch(codes, variables_list, temporal_extent,
                          fetch_all(catalog, fault, codes))
    /\ UNCHANGED <<vq, frame_order, catalog, fault, sparql, iq, remote, rd,
                   portal, ird, hist, ecv_lists, ecv_cache,
                   actris_lists, actris_vars>>

ActrisQuery ==
    \E codes \in {<<>>, <<"XY12">>, <<"ZZ99">>, <<"XY12", "ZZ99">>,
                  <<"ZZ99", "XY12">>, <<"XY12", "XY12">>},
       variables_list \in
           {NoneArg, ListArg(<<"NO2">>),
            ListArg(<<"Aerosol Optical Properties">>),
            ListArg(<<"Aerosol Physical Properties", "NO2">>)},
       temporal_extent \in TemporalExtents :
        query_datasets_stations(codes, variables_list, temporal_extent)

\* the most calls of get_list_variables in one behaviour
MaxCalls == 2

\* the calls have the same arguments
SameCall(a, b) ==
    /\ a.codes = b.codes
    /\ a.variables_list = b.variables_list
    /\ a.temporal_extent = b.temporal_extent

\* the outcomes in hist of the earlier calls of the query whose last call
\* is q: those of ICOS hold the concatenated frames, those of ACTRIS do
\* not
EarlierCalls(q) ==
    LET SameQuery(h) == ("concat" \in DOMAIN h) = ("concat" \in DOMAIN q)
    IN  SelectSeq(hist, SameQuery)

\* query_datasets_stations(['XY12', 'ZZ99']) called after the first call,
\* the metadata service being as it was
ActrisQueryOther ==
    /\ aq.status # "idle"
    /\ EarlierCalls(aq) = <<>>
    /\ actris_after_fetch(<<"XY12", "ZZ99">>, NoneArg, NoneArg,
                          fetch_all(catalog, fault, <<"XY12", "ZZ99">>))
    /\ hist' = Append(hist, aq)
    /\ UNCHANGED <<vq, frame_order, catalog, fault, sparql, iq, remote, rd,
                   portal, ird, ecv_lists, ecv_cache,
                   actris_lists, actris_vars>>

\* query_datasets_stations called again with the arguments of the first
\* call, right after it or after a call with other arguments, the metadata
\* service being as it was
ActrisQueryAgain ==
    /\ aq.status # "idle"
    /\ \/ EarlierCalls(aq) = <<>>
       \/ /\ Len(EarlierCalls(aq)) = 1
          /\ ~SameCall(EarlierCalls(aq)[1], aq)
    /\ LET first == IF EarlierCalls(aq) = <<>> THEN aq
                    ELSE EarlierCalls(aq)[1]
       IN  actris_after_fetch(first.codes, first.variables_list,
                              first.temporal_extent,
                              fetch_all(catalog, fault, first.codes))
    /\ hist' = Append(hist, aq)
    /\ UNCHANGED <<vq, frame_order, catalog, fault, sparql, iq, remote, rd,
                   portal, ird, ecv_lists, ecv_cache,
                   actris_lists, actris_vars>>

(***************************************************************************)
(* ICOS: query_datasets                                                    *)
(***************************************************************************)
\* get_list_variables(): [{'variable_name': k, 'ECV_name': v} for k, v in
\* _ICOS_VAR_TO_ECV_MAPPING.items()]; each 'ECV_name' is a list object of
\* the table, read as it is now
icos_get_list_variables ==
    [i \in 1..Len(ICOS_VAR_TO_ECV_MAPPING) |->
        [variable_name |-> ICOS_VAR_TO_ECV_MAPPING[i][1],
         ECV_name |-> ecv_lists[i]]]

\* a lookup that does not lower-case the name: "variable_name =
\* variable_name.lower()" left out
get_spec_no_lower(variable_name) ==
    DictGetOr(ICOS_VAR_lowercase_TO_SPEC, variable_name, "")

\* __get_spec(variable_name)
get_spec(variable_name) ==
    DictGetOr(ICOS_VAR_lowercase_TO_SPEC, Lower(variable_name), "")

RECURSIVE get_ecv_update(_, _)
\* for v in icos_vars_lowercase:
\*     ecvs.update(_ICOS_VAR_lowercase_TO_ECV_MAPPING[v])
\* the names put into the set ecvs, in the order they are put
get_ecv_update(icos_vars_lowercase, i) ==
    IF i > Len(icos_vars_lowercase) THEN <<>>
    ELSE DictGet(ICOS_VAR_lowercase_TO_ECV_MAPPING, icos_vars_lowercase[i])
         \o get_ecv_update(icos_vars_lowercase, i + 1)

\* __get_ecv(spec), its body: list(ecvs), a list that holds each name of
\* the set ecvs once; kept as the bag of its names
get_ecv(spec) ==
    SetToBag(SetOf(get_ecv_update(
                       DictGetOr(SPEC_TO_ICOS_VAR_lowercase, spec, <<>>), 1)))

\* @functools.cache on __get_ecv: the list object kept for spec, when the
\* function has been called for it before
get_ecv_cached(cache, spec) ==
    IF spec \in DOMAIN cache THEN cache[spec] ELSE get_ecv(spec)

\* what functools.cache keeps once __get_ecv has been called for the spec
\* of each row of df
get_ecv_cache_after(cache, df) ==
    [s \in DOMAIN cache \cup {df[i].spec : i \in 1..Len(df)} |->
        get_ecv_cached(cache, s)]

\* dataset['station'].str.slice(-3): the last three characters of the
\* station's URI
StationSlice3 ==
  << <<"http://meta.icos-cp.eu/resources/stations/AS_HPB", "HPB">>,
     <<"http://meta.icos-cp.eu/resources/stations/AS_PUY", "PUY">> >>

platform_id_of_station(station) == DictGet(StationSlice3, station)

IcosRow(dobj, spec, station, timeStart, timeEnd) ==
    [dobj |-> dobj, spec |-> spec, station |-> station,
     fileName |-> dobj \o ".zip", timeStart |-> timeStart, timeEnd |-> timeEnd]

SpecMto == "http://meta.icos-cp.eu/resources/cpmeta/atcMtoL2DataObject"
SpecCo2 == "http://meta.icos-cp.eu/resources/cpmeta/atcCo2Product"
StationHPB == "http://meta.icos-cp.eu/resources/stations/AS_HPB"

\* the rows the SPARQL endpoint may return; the second is a second row of
\* the first's data object, with another start time
IcosRowPool ==
    {IcosRow("obj-mto-1", SpecMto, StationHPB, D20200101, D20200601),
     IcosRow("obj-mto-1", SpecMto, StationHPB, D20200301, D20200601),
     IcosRow("obj-co2-1", SpecCo2, StationHPB, D20210101, D20210201),
     IcosRow("obj-n2o-1",
             "http://meta.icos-cp.eu/resources/cpmeta/atcN2oL2DataObject",
             "http://meta.icos-cp.eu/resources/stations/AS_PUY",
             D20200301, D20200401)}

\* the most rows __sparql_data() returns
MaxRows == 3

\* dataset.astype(dtype); dataset['platform_id'] = ...
icos_typed(rows) ==
    [i \in 1..Len(rows) |->
        [dobj |-> rows[i].dobj, spec |-> rows[i].spec,
         fileName |-> rows[i].fileName,
         timeStart |-> to_datetime(rows[i].timeStart),
         timeEnd |-> to_datetime(rows[i].timeEnd),
         platform_id |-> platform_id_of_station(rows[i].station)]]

\* for v in variables_list: if v.lower() in ecv: selected_var.append(...)
\* (lowered holds v.lower() for each v of variables_list, from the j-th on):
\* the variable's name, once for each v that is in ecv
select_in_list(vv, ecv, lowered, j) ==
    LET hits == SelectSeq(SubSeq(lowered, j, Len(lowered)),
                          LAMBDA v : v \in SetOf(ecv))
    IN  [k \in 1..Len(hits) |-> vv.variable_name]

RECURSIVE select_vars(_, _, _)
\* for vv in get_list_variables(): ecv = [v.lower() for v in vv['ECV_name']]
select_vars(variables, lowered, i) ==
    IF i > Len(variables) THEN <<>>
    ELSE select_in_list(variables[i],
                        [k \in 1..Len(variables[i].ECV_name) |->
                            Lower(variables[i].ECV_name[k])],
                        lowered, 1)
         \o select_vars(variables, lowered, i + 1)

\* selected_var as the loops over get_list_variables() and variables_list
\* leave it
selected_var_appended(variables_list) ==
    select_vars(icos_get_list_variables,
                [j \in 1..Len(variables_list) |-> Lower(variables_list[j])], 1)

\* [__get_spec(v) for v in selected_var], selected_var being as the loops
\* left it but with each name once, without the specs of which rows holds
\* no row: the loop below appends no frame for them
selected_var_specs(rows, selected_var) ==
    LET names      == Distinct(selected_var)
        HasRows(s) == \E i \in 1..Len(rows) : rows[i].spec = s
    IN  SelectSeq([i \in 1..Len(names) |-> get_spec(names[i])], HasRows)

\* selected_var = list(set(selected_var)): the ways the process may come to
\* go through its sets once it has built that of selected_var.  A set it
\* has listed before it lists again in the same way; one it builds for the
\* first time it lists in any order, and the specs of its names come in
\* any arrangement.
selected_var_orders(order, rows, selected_var) ==
    IF selected_var \in DOMAIN order THEN {order}
    ELSE {[z \in DOMAIN order \cup {selected_var} |->
              IF z = selected_var THEN a ELSE order[z]] :
             a \in Arrangements(selected_var_specs(rows, selected_var))}

RECURSIVE collect_dfs(_, _, _)
\* for v in selected_var: data = dataset[dataset['spec'] == __get_spec(v)];
\* if not data.empty: _dfs.append(data)         (the frames, concatenated)
\* specs holds __get_spec(v) for the names v the loop goes through
collect_dfs(dataset, specs, i) ==
    IF i > Len(specs) THEN <<>>
    ELSE LET HasSpec(r) == r.spec = specs[i]
         IN  SelectSeq(dataset, HasSpec)
             \o collect_dfs(dataset, specs, i + 1)

\* a dedup that keeps the last row of each data object:
\* df.drop_duplicates(subset=['dobj'], keep='last')
drop_duplicates_keep_last(df) ==
    LET idx == [i \in 1..Len(df) |-> <<i, df[i]>>]
        Last(p) == \A j \in (p[1] + 1)..Len(df) : df[j].dobj # p[2].dobj
        kept == SelectSeq(idx, Last)
    IN  [i \in 1..Len(kept) |-> kept[i][2]]

\* df.drop_duplicates(subset=['dobj'])
drop_duplicates(df) ==
    LET idx == [i \in 1..Len(df) |-> <<i, df[i]>>]
        First(p) == \A j \in 1..(p[1] - 1) : df[j].dobj # p[2].dobj
        kept == SelectSeq(idx, First)
    IN  [i \in 1..Len(kept) |-> kept[i][2]]

\* a filter that is strict at the end of the extent:
\* df[(df.timeStart < t1) & (df.timeEnd >= t0)]
icos_temporal_keeps_strict(r, t0, t1) == r.timeStart < t1 /\ r.timeEnd >= t0

\* (df.timeStart <= t1) & (df.timeEnd >= t0)
icos_temporal_keeps(r, t0, t1) == r.timeStart <= t1 /\ r.timeEnd >= t0

\* if temporal_extent is not None and len(temporal_extent) == 2: ...
icos_filter_temporal(df, temporal_extent) ==
    IF temporal_extent.given /\ Len(temporal_extent.v) = 2
    THEN LET t0 == to_datetime(temporal_extent.v[1])
             t1 == to_datetime(temporal_extent.v[2])
             Keep(r) == icos_temporal_keeps(r, t0, t1)
         IN  SelectSeq(df, Keep)
    ELSE df

\* d = {'title': ..., 'file_name': ..., 'urls': ..., ...}, the dict built
\* for one row of df.  'title' is what
\* data_processing.GetICOSDatasetTitleRequest(dobj).compute() gives for the
\* data object, data_processing being a module of the application that
\* imports this package; 'ecv_variables' is the list object __get_ecv
\* returns.
icos_descriptor(cache, r) ==
    [title |-> "title of " \o r.dobj,
     file_name |-> r.fileName,
     urls |-> <<[url |-> r.dobj, type |-> "landing_page"]>>,
     ecv_variables |-> get_ecv_cached(cache, r.spec),
     time_period |-> <<r.timeStart, r.timeEnd>>,
     platform_id |-> r.platform_id]

IqIdle ==
    [status |-> "idle", codes |-> <<>>, variables_list |-> NoneArg,
     temporal_extent |-> NoneArg, value |-> <<>>, exc |-> None,
     concat |-> <<>>, candidates |-> <<>>, requests |-> <<>>]

\* outlist: one dict per row of df
icos_outlist(cache, df) ==
    [i \in 1..Len(df) |-> icos_descriptor(cache, df[i])]

\* dataset[dataset['platform_id'].isin(set(codes))]
icos_filter_codes(dataset, codes) ==
    LET InCodes(r) == r.platform_id \in SetOf(codes)
    IN  SelectSeq(dataset, InCodes)

\* if variables_list is None:
\*     variables_list = list(_ECV_TO_ICOS_VARS_lowercase)
icos_default_variables(variables_list) ==
    IF variables_list.given THEN variables_list.v
    ELSE DictKeys(ECV_TO_ICOS_VARS_lowercase)

\* what the call leaves, given the concatenated frames, the frame left by
\* drop_duplicates and df, the frame left by the temporal filter; requests
\* lists the requests a call sends, station.getIdList(project='all') and
\* __sparql_data(), at its start.  The early returns of an empty list
\* ("if dataset.empty", "if len(_dfs) == 0", "if df.empty") are the cases
\* in which df is empty; with rows in df the call goes on to "import
\* data_processing", which raises where that module cannot be imported.
icos_outcome(cache, codes, variables_list, temporal_extent, concat, candidates, df, importable) ==
    [status |-> IF df = <<>> \/ importable THEN "returned" ELSE "raised",
     codes |-> codes,
     variables_list |-> variables_list,
     temporal_extent |-> temporal_extent,
     value |-> IF importable THEN icos_outlist(cache, df) ELSE <<>>,
     exc |-> IF df = <<>> \/ importable THEN None
             ELSE "ModuleNotFoundError",
     concat |-> concat,
     candidates |-> candidates,
     requests |-> <<"station.getIdList", "sparql">>]

\* the frames of the selected variables, concatenated: pd.concat(_dfs);
\* none when no row is of a station in codes, selected_var being made
\* after the return of "if dataset.empty"
icos_concat(order, rows, codes, variables_list) ==
    IF icos_filter_codes(icos_typed(rows), codes) = <<>> THEN <<>>
    ELSE collect_dfs(icos_filter_codes(icos_typed(rows), codes),
                     order[selected_var_appended(
                               icos_default_variables(variables_list))],
                     1)

\* the loop over df.iterrows(), __get_ecv being called for the spec of
\* each row: the way the process goes through its sets after the call,
\* the lists functools.cache keeps after it, and what the call leaves
icos_describe(cache, order, codes, variables_list, temporal_extent, concat, candidates, df, importable) ==
    <<order,
      IF importable THEN get_ecv_cache_after(cache, df) ELSE cache,
      icos_outcome(cache, codes, variables_list, temporal_extent, concat,
                   candidates, df, importable)>>

\* the body of query_datasets once the rows have come: the ways it may
\* end.  selected_var is listed unless no row is of a station in codes;
\* the frames are collected in the order in which it is listed, and
\* df = pd.concat(_dfs).drop_duplicates(subset=['dobj']) goes through the
\* temporal filter.
icos_body(cache, order, rows, codes, variables_list, temporal_extent, importable) ==
    {LET concat == icos_concat(listed, rows, codes, variables_list)
     IN  icos_describe(cache, listed, codes, variables_list,
                       temporal_extent, concat, drop_duplicates(concat),
                       icos_filter_temporal(drop_duplicates(concat),
                                            temporal_extent),
                       importable) :
        listed \in IF icos_filter_codes(icos_typed(rows), codes) = <<>>
                   THEN {order}
                   ELSE selected_var_orders(order, rows,
                            selected_var_appended(
                                icos_default_variables(variables_list)))}

\* the call ends in one of the ways of its body
icos_after_sparql(codes, variables_list, temporal_extent, importable) ==
    \E end \in icos_body(ecv_cache, frame_order, sparql, codes,
                         variables_list, temporal_extent, importable) :
        /\ frame_order' = end[1]
        /\ ecv_cache' = end[2]
        /\ iq' = end[3]

\* query_datasets(codes, variables_list, temporal_extent)
icos_query_datasets(codes, variables_list, temporal_extent, importable) ==
    /\ iq.status = "idle"
    /\ icos_after_sparql(codes, variables_list, temporal_extent, importable)
    /\ UNCHANGED <<vq, set_order, catalog, fault, aq, sparql, remote, rd,
                   portal, ird, hist, ecv_lists, actris_lists, actris_vars>>

IcosQuery ==
    \E codes \in {<<>>, <<"HPB">>, <<"PUY">>, <<"HPB", "PUY">>},
       variables_list \in
           {NoneArg, ListArg(<<>>), ListArg(<<"temperature">>),
            ListArg(<<"CO2">>),
            ListArg(<<"Carbon Dioxide, Methane and other Greenhouse gases">>),
            ListArg(<<"Ozone">>), ListArg(<<"n2o", "Temperature">>)},
       temporal_extent \in {NoneArg, ListArg(<<D20200301>>),
                            ListArg(<<D20200301, D20200401>>),
                            ListArg(<<D20210101, D20210201>>),
                            ListArg(<<D20200601, D20210101>>)},
       importable \in BOOLEAN :
        icos_query_datasets(codes, variables_list, temporal_extent,
                            importable)

\* query_datasets(['HPB', 'PUY']) called after the first call, the SPARQL
\* endpoint answering as it did and data_processing importable as it was:
\* as the first call found it where it got to "import data_processing"
\* (it raised, or returned descriptors), and either way where it returned
\* [] before that line
IcosQueryOther ==
    /\ iq.status # "idle"
    /\ EarlierCalls(iq) = <<>>
    /\ \E importable \in BOOLEAN :
          /\ iq.exc # None => ~importable
          /\ iq.value # <<>> => importable
          /\ icos_after_sparql(<<"HPB", "PUY">>, NoneArg, NoneArg,
                               importable)
    /\ hist' = Append(hist, iq)
    /\ UNCHANGED <<vq, set_order, catalog, fault, aq, sparql, remote, rd,
                   portal, ird, ecv_lists, actris_lists, actris_vars>>

\* query_datasets called again with the arguments of the first call, right
\* after it or after a call with other arguments, the SPARQL endpoint
\* answering as it did and data_processing importable as it was: the first
\* call raised at "import data_processing" or the call does not raise
\* there either (with the same arguments and rows it returns [] before
\* that line if the first call did)
IcosQueryAgain ==
    /\ iq.status # "idle"
    /\ \/ EarlierCalls(iq) = <<>>
       \/ /\ Len(EarlierCalls(iq)) = 1
          /\ ~SameCall(EarlierCalls(iq)[1], iq)
    /\ LET first == IF EarlierCalls(iq) = <<>> THEN iq
                    ELSE EarlierCalls(iq)[1]
       IN  icos_after_sparql(first.codes, first.variables_list,
                             first.temporal_extent, first.exc = None)
    /\ hist' = Append(hist, iq)
    /\ UNCHANGED <<vq, set_order, catalog, fault, aq, sparql, remote, rd,
                   portal, ird, ecv_lists, actris_lists, actris_vars>>

(***************************************************************************)
(* ACTRIS: read_dataset                                                    *)
(*                                                                         *)
(* The dataset behind the locator: whether xr.open_dataset and load()      *)
(* succeed, and its data variables in file order, each with its name and   *)
(* its attributes (has_standard_name: 'standard_name' in da.attrs).        *)
(***************************************************************************)
DataVar(name, has_standard_name, standard_name) ==
    [name |-> name, has_standard_name |-> has_standard_name,
     standard_name |-> standard_name]

DataVarPool ==
    {DataVar("nitrogen_dioxide", TRUE, "nitrogen dioxide amount fraction"),
     DataVar("NOx_uncertainty", TRUE, "nitrogen dioxide mass concentration"),
     DataVar("aod", TRUE, "aerosol particle optical depth"),
     DataVar("ozone", TRUE, "ozone amount fraction"),
     DataVar("lat", TRUE, "latitude"),
     DataVar("flag", FALSE, "")}

\* the most data variables of a dataset
MaxVars == 3

\* the datasets behind a locator: up to MaxVars data variables of the
\* pool, in any file order
Remotes ==
    {[state |-> s, data_vars |-> v] :
        s \in {"ok", "open_fails", "load_fails"},
        v \in {w \in UNION {[1..k -> DataVarPool] : k \in 0..MaxVars} :
                  DupFree(w)}}

\* a filter that does not look for the attribute: the
\* "if 'standard_name' not in da.attrs: continue" left out
lacks_standard_name_unchecked(da) == FALSE

\* 'standard_name' not in da.attrs
lacks_standard_name(da) == ~da.has_standard_name

\* a filter that treats the static parameters as any other variable:
\* "std_name not in STATIC_PARAMETERS and" left out of the condition
skipped_for_request_no_static(da, variables_set) ==
    isdisjoint(variables_set, actris_ecvs_for(da.standard_name))

\* a filter that skips a variable only when its attribute is in the
\* vocabulary: an unknown attribute is let through
skipped_for_request_known_only(da, variables_set) ==
    /\ ~InList(da.standard_name, STATIC_PARAMETERS)
    /\ actris_ecvs_for(da.standard_name) # <<>>
    /\ isdisjoint(variables_set, actris_ecvs_for(da.standard_name))

\* the body of "if variables_set is not None:": whether the variable is
\* skipped
skipped_for_request(da, variables_set) ==
    LET std_name  == da.standard_name
        ecv_names == actris_ecvs_for(std_name)
    IN  /\ ~InList(std_name, STATIC_PARAMETERS)
        /\ isdisjoint(variables_set, ecv_names)

RECURSIVE select_varlist(_, _, _)
\* for varname, da in ds.data_vars.items(): ... varlist.append(varname)
select_varlist(data_vars, variables_list, i) ==
    IF i > Len(data_vars) THEN <<>>
    ELSE LET da == data_vars[i]
             skip == \/ lacks_standard_name(da)
                     \/ /\ variables_list.given
                        /\ skipped_for_request(da, variables_list.v)
         IN  (IF skip THEN <<>> ELSE <<da.name>>)
             \o select_varlist(data_vars, variables_list, i + 1)

\* opens: the attempts made to get at the dataset, in order
RdIdle ==
    [status |-> "idle", variables_list |-> NoneArg, value |-> <<>>,
     exc |-> None, opens |-> <<>>]

\* with xr.open_dataset(dataset_id) as ds: the one attempt the function
\* makes, whatever its outcome
open_attempts == <<"xr.open_dataset">>

\* read_dataset(dataset_id, variables_list); value is the list of the data
\* variables of the dataset returned
actris_read_dataset(variables_list) ==
    /\ rd.status = "idle"
    /\ rd' = IF remote.state = "ok"
             THEN [status |-> "returned", variables_list |-> variables_list,
                   value |-> select_varlist(remote.data_vars, variables_list, 1),
                   exc |-> None, opens |-> open_attempts]
             ELSE [status |-> "raised", variables_list |-> variables_list,
                   value |-> <<>>, exc |-> "RuntimeError",
                   opens |-> open_attempts]
    /\ UNCHANGED <<vq, set_order, frame_order, catalog, fault, aq, sparql,
                   iq, remote, portal, ird, hist, ecv_lists, ecv_cache,
                   actris_lists, actris_vars>>

ActrisRead ==
    \E variables_list \in
           {NoneArg, ListArg(<<>>), ListArg(<<"NO2">>),
            ListArg(<<"Aerosol Optical Properties">>),
            ListArg(<<"Aerosol Optical Properties", "NO2">>),
            ListArg(<<"Ozone">>)} :
        actris_read_dataset(variables_list)

(***************************************************************************)
(* ICOS: read_dataset                                                      *)
(*                                                                         *)
(* The data portal: for a persistent identifier, whether Dobj(pid) raises, *)
(* gives no data (digital_object.data is None), gives no meta-data         *)
(* (digital_object.info is None), or gives a data frame with the columns   *)
(* listed, in file order.                                                  *)
(***************************************************************************)
DobjOk(columns) == [state |-> "ok", columns |-> columns]

DobjFails(state) == [state |-> state, columns |-> <<>>]

DobjStates ==
    {DobjOk(c) : c \in {<<"TIMESTAMP", "Flag", "NbPoints", "co2", "Stdev">>,
                        <<"TIMESTAMP", "AP", "WS">>,
                        <<"TIMESTAMP", "Flag">>,
                        <<"co2">>}}
    \cup {DobjFails(st) : st \in {"raises", "data_none", "meta_none"}}

Pids == {"obj-a", "obj-b"}

NoPortal == [p \in Pids |-> DobjFails("raises")]

\* a dataset of xarray, or None
NoDataset == [none |-> TRUE, data_vars |-> <<>>, coords |-> {}]

\* _read_dataset(pid)
icos__read_dataset(d) ==
    IF d.state = "raises" THEN [exc |-> "Exception", ds |-> NoDataset]
    ELSE IF d.state \in {"data_none", "meta_none"}
    THEN [exc |-> None, ds |-> NoDataset]
    ELSE [exc |-> None,
          ds |-> [none |-> FALSE, data_vars |-> d.columns, coords |-> {}]]

\* ds.set_coords('TIMESTAMP').swap_dims({'index': 'TIMESTAMP'})
\*   .reset_coords('index', drop=True).rename({'TIMESTAMP': 'time'})
set_coords_raises(ds) == ds.none \/ ~InList("TIMESTAMP", ds.data_vars)

reindexed(ds) ==
    [none |-> FALSE,
     data_vars |-> SelectSeq(ds.data_vars, LAMBDA v : v # "TIMESTAMP"),
     coords |-> {"time"}]

\* variables_set
icos_variables_set(variables_list) ==
    IF ~variables_list.given THEN SetOf(DictKeys(ECV_TO_ICOS_VARS_lowercase))
    ELSE SetOf(variables_list.v) \cap SetOf(DictKeys(ECV_TO_ICOS_VARS_lowercase))

\* set(sum((_ECV_TO_ICOS_VARS_lowercase[v] for v in variables_set), start=[]))
icos_variables_lowercase(variables_list) ==
    UNION {SetOf(DictGet(ECV_TO_ICOS_VARS_lowercase, v)) :
               v \in icos_variables_set(variables_list)}

\* a test of the type that does not lower-case it
not_landing_page_exact(typ) == typ # "landing_page"

\* typ.lower() != 'landing_page'
not_landing_page(typ) == Lower(typ) # "landing_page"

\* if ds is None: continue
none_is_skipped(ds) == ds.none

\* a selection that keeps every data variable of the dataset
icos_vs_all(ds, lowercase) == ds.data_vars

\* vs = [v for v in list(ds) if v.lower() in icos_variables_lowercase]
icos_vs(ds, lowercase) == SelectSeq(ds.data_vars, LAMBDA v : Lower(v) \in lowercase)

IrdIdle ==
    [status |-> "idle", dataset_id |-> <<>>, variables_list |-> NoneArg,
     none |-> FALSE, value |-> <<>>, pid |-> None, exc |-> None,
     tried |-> <<>>]

\* what the call leaves: the data variables of the dataset returned and the
\* identifier it was read from, or None, or the exception; tried lists the
\* identifiers _read_dataset was called with
icos_read_outcome(dataset_id, variables_list, status, none, value, pid, tried) ==
    [status |-> status, dataset_id |-> dataset_id,
     variables_list |-> variables_list, none |-> none, value |-> value,
     pid |-> pid, exc |-> IF status = "raised" THEN "RuntimeError" ELSE None,
     tried |-> tried]

RECURSIVE icos_read_urls(_, _, _, _, _, _)
\* for url_type_dict in dataset_id: ... ; return None
icos_read_urls(prt, dataset_id, variables_list, lowercase, i, tried) ==
    IF i > Len(dataset_id)
    THEN icos_read_outcome(dataset_id, variables_list, "returned", TRUE,
                           <<>>, None, tried)
    ELSE LET pid == dataset_id[i].url
             typ == dataset_id[i].type
         IN  IF not_landing_page(typ)
             THEN icos_read_urls(prt, dataset_id, variables_list, lowercase,
                                 i + 1, tried)
             ELSE LET r == icos__read_dataset(prt[pid])
                      t == Append(tried, pid)
                  IN  IF r.exc # None
                      THEN icos_read_outcome(dataset_id, variables_list,
                                             "raised", FALSE, <<>>, None, t)
                      ELSE IF none_is_skipped(r.ds)
                      THEN icos_read_urls(prt, dataset_id, variables_list,
                                          lowercase, i + 1, t)
                      ELSE IF set_coords_raises(r.ds)
                      THEN icos_read_outcome(dataset_id, variables_list,
                                             "raised", FALSE, <<>>, None, t)
                      ELSE LET vs == icos_vs(reindexed(r.ds), lowercase)
                           IN  IF vs = <<>>
                               THEN icos_read_urls(prt, dataset_id,
                                                   variables_list, lowercase,
                                                   i + 1, t)
                               ELSE icos_read_outcome(dataset_id,
                                        variables_list, "returned", FALSE,
                                        vs, pid, t)

\* the most locators of a dataset_id
MaxUrls == 2

\* read_dataset(dataset_id, variables_list)
icos_read_dataset(dataset_id, variables_list) ==
    /\ ird.status = "idle"
    /\ ird' = icos_read_urls(portal, dataset_id, variables_list,
                             icos_variables_lowercase(variables_list), 1, <<>>)
    /\ UNCHANGED <<vq, set_order, frame_order, catalog, fault, aq, sparql,
                   iq, remote, rd, portal, hist, ecv_lists, ecv_cache,
                   actris_lists, actris_vars>>

IcosRead ==
    \E dataset_id \in
           UNION {[1..k -> {[url |-> p, type |-> t] :
                               p \in Pids,
                               t \in {"landing_page", "Landing_Page",
                                      "data_file"}}] : k \in 0..MaxUrls},
       variables_list \in
           {NoneArg, ListArg(<<>>), ListArg(<<"co2">>), ListArg(<<"CO2">>),
            ListArg(<<"Carbon Dioxide">>),
            ListArg(<<"Pressure (surface)", "Ozone">>),
            ListArg(<<"pressure (surface)">>)} :
        icos_read_dataset(dataset_id, variables_list)

(***************************************************************************)
(* ICOS: the lists get_list_variables hands out.  The function is cached   *)
(* and builds its dicts from _ICOS_VAR_TO_ECV_MAPPING.items(): each        *)
(* 'ECV_name' is the list object that is the value of the table (and of    *)
(* _ICOS_VAR_lowercase_TO_ECV_MAPPING, built from the same values), not a  *)
(* copy.  ecv_lists holds these list objects; a caller that has a result   *)
(* in hand reaches them through it.  In the same way 'ecv_variables' of a  *)
(* descriptor is the list object functools.cache keeps for __get_ecv.      *)
(***************************************************************************)
\* the values of _ICOS_VAR_TO_ECV_MAPPING as the module constructs them
IcosEcvLists ==
    [i \in 1..Len(ICOS_VAR_TO_ECV_MAPPING) |-> ICOS_VAR_TO_ECV_MAPPING[i][2]]

\* get_list_variables(): the dicts with the list objects as they are now
IcosGetListVariables ==
    /\ Len(hist) < MaxCalls
    /\ hist' = Append(hist, icos_get_list_variables)
    /\ UNCHANGED <<vq, set_order, frame_order, catalog, fault, aq, sparql,
                   iq, remote, rd, portal, ird, ecv_lists, ecv_cache,
                   actris_lists, actris_vars>>

\* the most names a caller appends to one list
MaxAppends == 1

\* the lists a caller modifies are among the first MaxLists of a result
MaxLists == 3

\* result[i]['ECV_name'].append(name), by a caller that holds a result of
\* get_list_variables()
CallerAppends(i, name) ==
    /\ hist # <<>>
    /\ Len(ecv_lists[i]) < Len(IcosEcvLists[i]) + MaxAppends
    /\ ecv_lists' = [ecv_lists EXCEPT ![i] = Append(@, name)]
    /\ UNCHANGED <<vq, set_order, frame_order, catalog, fault, aq, sparql,
                   iq, remote, rd, portal, ird, hist, ecv_cache,
                   actris_lists, actris_vars>>

(***************************************************************************)
(* ACTRIS: the lists get_list_variables hands out.  The function is not    *)
(* cached: each call asks the vocabulary service and builds its dicts      *)
(* anew, but each 'ECV_name' is MAPPING_ACTRIS_ECV[label], the list object *)
(* the table holds, not a copy.  query_datasets_stations and read_dataset  *)
(* read the same list objects.                                             *)
(***************************************************************************)
\* the most items in an answer of the vocabulary service
MaxItems == 2

\* the answers to requests.get(REST_URL_VARIABLES): the exception raised
\* by the request, by raise_for_status() or by json(), or the items of the
\* JSON, each with its 'label' if it has one
VariableResponses ==
    {[exc |-> e, items |-> <<>>] :
        e \in {"ConnectionError", "HTTPError", "JSONDecodeError"}}
    \cup
    {[exc |-> None, items |-> s] :
        s \in UNION {[1..k -> {[has_label |-> TRUE,
                                 label |-> "nitrogen dioxide amount fraction"],
                                [has_label |-> TRUE,
                                 label |-> "aerosol particle optical depth"],
                                [has_label |-> TRUE,
                                 label |-> "ozone amount fraction"],
                                [has_label |-> FALSE, label |-> ""]}] :
                         k \in 0..MaxItems}}

RECURSIVE list_variables(_, _, _)
\* for item in jsonResponse:
\*     if item['label'] in MAPPING_ACTRIS_ECV: variables.append(variable)
list_variables(items, i, variables) ==
    IF i > Len(items) THEN [exc |-> None, value |-> variables]
    ELSE IF ~items[i].has_label THEN [exc |-> "KeyError", value |-> <<>>]
    ELSE list_variables(items, i + 1,
             IF DictHas(MAPPING_ACTRIS_ECV, items[i].label)
             THEN Append(variables,
                         [variable_name |-> items[i].label,
                          ECV_name |-> actris_list_now(items[i].label)])
             ELSE variables)

\* get_list_variables(), the vocabulary service answering response: the
\* list returned, or the exception, which both except clauses raise again
actris_get_list_variables(response) ==
    LET r == IF response.exc # None
             THEN [exc |-> response.exc, value |-> <<>>]
             ELSE list_variables(response.items, 1, <<>>)
    IN  [status |-> IF r.exc = None THEN "returned" ELSE "raised",
         response |-> response, exc |-> r.exc, value |-> r.value]

ActrisGetListVariables ==
    /\ Len(actris_vars) < MaxCalls
    /\ \E response \in VariableResponses :
          actris_vars' = Append(actris_vars,
                                actris_get_list_variables(response))
    /\ UNCHANGED <<vq, set_order, frame_order, catalog, fault, aq, sparql,
                   iq, remote, rd, portal, ird, hist, ecv_lists, ecv_cache,
                   actris_lists>>

\* d['ECV_name'].append(name), by a caller that holds, in a result of
\* get_list_variables() of ACTRIS, the dict d of the variable v
ActrisCallerAppends(v, name) ==
    /\ \E j \in 1..Len(actris_vars) :
          \E k \in 1..Len(actris_vars[j].value) :
              actris_vars[j].value[k].variable_name = v
    /\ Len(actris_list_now(v))
           < Len(DictGet(MAPPING_ACTRIS_ECV, v)) + MaxAppends
    /\ actris_lists' =
           [z \in DOMAIN actris_lists \cup {v} |->
               IF z = v THEN Append(actris_list_now(v), name)
               ELSE actris_lists[z]]
    /\ UNCHANGED <<vq, set_order, frame_order, catalog, fault, aq, sparql,
                   iq, remote, rd, portal, ird, hist, ecv_lists, ecv_cache,
                   actris_vars>>

(***************************************************************************)
(* Specifications                                                          *)
(***************************************************************************)
EmptyCatalog == [c \in Facilities |-> <<>>]

NoRemote == [state |-> "ok", data_vars |-> <<>>]

InitVocab ==
    /\ vq = VocabIdle
    /\ set_order = <<>>
    /\ frame_order = <<>>
    /\ actris_lists = <<>>
    /\ actris_vars = <<>>
    /\ catalog = EmptyCatalog
    /\ fault = NoFault
    /\ aq = AqIdle
    /\ sparql = <<>>
    /\ iq = IqIdle
    /\ remote = NoRemote
    /\ rd = RdIdle
    /\ portal = NoPortal
    /\ ird = IrdIdle
    /\ hist = <<>>
    /\ ecv_lists = IcosEcvLists
    /\ ecv_cache = <<>>

\* the lookups of every name of the two tables, and of names they lack
NextVocab ==
    \/ \E e \in SetOf(DictKeys(MAPPING_ECV_ACTRIS)) \cup {"Ozone"},
          v \in UNION {SetOf(MAPPING_ECV_ACTRIS[i][2]) :
                          i \in 1..Len(MAPPING_ECV_ACTRIS)}
                \cup {"ozone amount fraction", "air_pressure"} :
          ActrisLookup(e, v)
    \/ \E e \in UNION {SetOf(ICOS_VAR_TO_ECV_MAPPING[i][2]) :
                          i \in 1..Len(ICOS_VAR_TO_ECV_MAPPING)}
                \cup {"Ozone"},
          v \in SetOf(DictKeys(ICOS_VAR_TO_ECV_MAPPING)) \cup {"o3"} :
          IcosLookup(e, v)

SpecVocab == InitVocab /\ [][NextVocab]_vars

InitActris ==
    /\ vq = VocabIdle
    /\ set_order = <<>>
    /\ frame_order = <<>>
    /\ actris_lists = <<>>
    /\ actris_vars = <<>>
    /\ catalog \in CatalogsUpTo(MaxRecs)
    /\ fault \in Faults
    /\ aq = AqIdle
    /\ sparql = <<>>
    /\ iq = IqIdle
    /\ remote = NoRemote
    /\ rd = RdIdle
    /\ portal = NoPortal
    /\ ird = IrdIdle
    /\ hist = <<>>
    /\ ecv_lists = IcosEcvLists
    /\ ecv_cache = <<>>

NextActris == ActrisQuery

SpecActris == InitActris /\ [][NextActris]_vars

InitIcos ==
    /\ vq = VocabIdle
    /\ set_order = <<>>
    /\ frame_order = <<>>
    /\ actris_lists = <<>>
    /\ actris_vars = <<>>
    /\ catalog = EmptyCatalog
    /\ fault = NoFault
    /\ aq = AqIdle
    /\ sparql \in UNION {[1..k -> IcosRowPool] : k \in 0..MaxRows}
    /\ iq = IqIdle
    /\ remote = NoRemote
    /\ rd = RdIdle
    /\ portal = NoPortal
    /\ ird = IrdIdle
    /\ hist = <<>>
    /\ ecv_lists = IcosEcvLists
    /\ ecv_cache = <<>>

NextIcos == IcosQuery

SpecIcos == InitIcos /\ [][NextIcos]_vars

InitRead ==
    /\ vq = VocabIdle
    /\ set_order = <<>>
    /\ frame_order = <<>>
    /\ actris_lists = <<>>
    /\ actris_vars = <<>>
    /\ catalog = EmptyCatalog
    /\ fault = NoFault
    /\ aq = AqIdle
    /\ sparql = <<>>
    /\ iq = IqIdle
    /\ remote \in Remotes
    /\ rd = RdIdle
    /\ portal = NoPortal
    /\ ird = IrdIdle
    /\ hist = <<>>
    /\ ecv_lists = IcosEcvLists
    /\ ecv_cache = <<>>

NextRead == ActrisRead

SpecRead == InitRead /\ [][NextRead]_vars

InitIcosRead ==
    /\ vq = VocabIdle
    /\ set_order = <<>>
    /\ frame_order = <<>>
    /\ actris_lists = <<>>
    /\ actris_vars = <<>>
    /\ catalog = EmptyCatalog
    /\ fault = NoFault
    /\ aq = AqIdle
    /\ sparql = <<>>
    /\ iq = IqIdle
    /\ remote = NoRemote
    /\ rd = RdIdle
    /\ portal \in [Pids -> DobjStates]
    /\ ird = IrdIdle
    /\ hist = <<>>
    /\ ecv_lists = IcosEcvLists
    /\ ecv_cache = <<>>

NextIcosRead == IcosRead

SpecIcosRead == InitIcosRead /\ [][NextIcosRead]_vars

\* A discovery query called, and called again with the same arguments,
\* right away or after a call with other arguments.  The process queries
\* the provider whose service the initial state describes: a metadata
\* service that holds fewer than MaxRecs records, or a SPARQL endpoint
\* that has fewer than MaxRows rows, no two of them the same.  Where both
\* services hold data it queries both providers, the calls of one between
\* those of the other: query_datasets_stations for facility XY12 and
\* query_datasets for station HPB, with no temporal_extent.
InitTwice ==
    /\ vq = VocabIdle
    /\ set_order = <<>>
    /\ frame_order = <<>>
    /\ actris_lists = <<>>
    /\ actris_vars = <<>>
    /\ \/ /\ catalog \in CatalogsUpTo(MaxRecs - 1)
          /\ fault \in Faults
          /\ sparql = <<>>
       \/ /\ catalog = EmptyCatalog
          /\ fault = NoFault
          /\ sparql \in {x \in UNION {[1..k -> IcosRowPool] :
                                         k \in 0..(MaxRows - 1)} :
                            \A i, j \in 1..Len(x) : x[i] = x[j] => i = j}
       \/ /\ catalog = [c \in Facilities |->
                            IF c = "XY12" THEN <<<<RecNO2, RecAerosol>>>>
                            ELSE <<>>]
          /\ fault = NoFault
          /\ sparql = <<IcosRow("obj-mto-1", SpecMto, StationHPB, D20200101,
                                D20200601),
                        IcosRow("obj-co2-1", SpecCo2, StationHPB, D20210101,
                                D20210201)>>
    /\ aq = AqIdle
    /\ iq = IqIdle
    /\ remote = NoRemote
    /\ rd = RdIdle
    /\ portal = NoPortal
    /\ ird = IrdIdle
    /\ hist = <<>>
    /\ ecv_lists = IcosEcvLists
    /\ ecv_cache = <<>>

FirstActrisQuery ==
    /\ IF sparql = <<>> THEN iq.status = "idle" ELSE catalog # EmptyCatalog
    /\ ActrisQuery
    /\ sparql # <<>> => (aq'.codes = <<"XY12">> /\ ~aq'.temporal_extent.given)

FirstIcosQuery ==
    /\ IF catalog = EmptyCatalog THEN fault = NoFault /\ aq.status = "idle"
       ELSE sparql # <<>>
    /\ IcosQuery
    /\ catalog # EmptyCatalog
          => (iq'.codes = <<"HPB">> /\ ~iq'.temporal_extent.given)

NextTwice ==
    \/ FirstActrisQuery
    \/ ActrisQueryOther
    \/ ActrisQueryAgain
    \/ FirstIcosQuery
    \/ IcosQueryOther
    \/ IcosQueryAgain

SpecTwice == InitTwice /\ [][NextTwice]_vars

\* query_datasets(['HPB'], variables_list), whatever was called before
IcosQueryShared(variables_list) ==
    /\ sparql # <<>>
    /\ icos_after_sparql(<<"HPB">>, variables_list, NoneArg, TRUE)
    /\ UNCHANGED <<vq, set_order, catalog, fault, aq, sparql, remote, rd,
                   portal, ird, hist, ecv_lists, actris_lists, actris_vars>>

\* d['ecv_variables'].append(name), by a caller that holds, in the result
\* of the last query_datasets, the descriptor d of a data object of spec
CallerAppendsEcv(spec, name) ==
    /\ iq.status = "returned"
    /\ \E k \in 1..Len(iq.value), i \in 1..Len(sparql) :
          /\ sparql[i].dobj = iq.value[k].urls[1].url
          /\ sparql[i].spec = spec
    /\ CopiesIn(name, ecv_cache[spec]) < MaxAppends
    /\ ecv_cache' = [ecv_cache EXCEPT ![spec] = @ (+) SetToBag({name})]
    /\ UNCHANGED <<vq, set_order, frame_order, catalog, fault, aq, sparql,
                   iq, remote, rd, portal, ird, hist, ecv_lists,
                   actris_lists, actris_vars>>

\* query_datasets_stations(['XY12']), whatever was called before; hist
\* takes its outcome
ActrisQueryShared ==
    /\ Len(hist) < MaxCalls
    /\ actris_after_fetch(<<"XY12">>, NoneArg, NoneArg,
                          fetch_all(catalog, fault, <<"XY12">>))
    /\ hist' = Append(hist, aq')
    /\ UNCHANGED <<vq, frame_order, catalog, fault, sparql, iq, remote, rd,
                   portal, ird, ecv_lists, ecv_cache, actris_lists,
                   actris_vars>>

\* A caller that modifies the lists of the results it holds, of one
\* provider in a behaviour.  Where the metadata service of ACTRIS holds
\* records it calls get_list_variables and query_datasets_stations of
\* ACTRIS and appends names to the lists of the former's results.
\* Otherwise, where the SPARQL endpoint has no rows it calls
\* get_list_variables of ICOS, again and again, and appends names to the
\* lists of the results; where the endpoint has rows it also calls
\* query_datasets and appends to the ECV lists of the descriptors, calls
\* get_list_variables once, and appends to the first list of its result.
InitShared ==
    /\ vq = VocabIdle
    /\ set_order = <<>>
    /\ frame_order = <<>>
    /\ actris_lists = <<>>
    /\ actris_vars = <<>>
    /\ catalog \in {EmptyCatalog,
                    [c \in Facilities |->
                        IF c = "XY12" THEN <<<<RecNO2, RecAerosol>>>>
                        ELSE <<>>]}
    /\ fault = NoFault
    /\ aq = AqIdle
    /\ sparql \in {<<>>,
                   <<IcosRow("obj-mto-1", SpecMto, StationHPB, D20200101,
                             D20200601),
                     IcosRow("obj-co2-1", SpecCo2, StationHPB, D20210101,
                             D20210201)>>}
    /\ iq = IqIdle
    /\ remote = NoRemote
    /\ rd = RdIdle
    /\ portal = NoPortal
    /\ ird = IrdIdle
    /\ hist = <<>>
    /\ ecv_lists = IcosEcvLists
    /\ ecv_cache = <<>>
    /\ catalog = EmptyCatalog \/ sparql = <<>>

NextShared ==
    \/ catalog # EmptyCatalog /\ ActrisGetListVariables
    \/ \E v \in {"nitrogen dioxide amount fraction",
                  "aerosol particle optical depth"},
          name \in {"x", "NO2"} : ActrisCallerAppends(v, name)
    \/ catalog # EmptyCatalog /\ ActrisQueryShared
    \/ /\ catalog = EmptyCatalog
       /\ sparql = <<>> \/ hist = <<>>
       /\ IcosGetListVariables
    \/ /\ catalog = EmptyCatalog
       /\ \E i \in 1..(IF sparql = <<>> THEN MaxLists ELSE 1),
             name \in {"x", "Ozone"} : CallerAppends(i, name)
    \/ \E variables_list \in {ListArg(<<"Ozone">>), ListArg(<<"Pressure">>)} :
          IcosQueryShared(variables_list)
    \/ \E spec \in {SpecMto, SpecCo2} : CallerAppendsEcv(spec, "x")

SpecShared == InitShared /\ [][NextShared]_vars

\* In the components below no caller modifies a list it was handed: the
\* vocabulary tables stay as constructed and each call works on its own
\* arguments and on the service it queries.
\* A behaviour of Spec is one call of one operation, in any environment of
\* the component specifications above.
Init == InitVocab \/ InitActris \/ InitIcos \/ InitRead \/ InitIcosRead

Next ==
    /\ vq = VocabIdle
    /\ aq.status = "idle"
    /\ iq.status = "idle"
    /\ rd.status = "idle"
    /\ ird.status = "idle"
    /\ (NextVocab \/ NextActris \/ NextIcos \/ NextRead \/ NextIcosRead)

Spec == Init /\ [][Next]_vars

(***************************************************************************)
(* Properties                                                              *)
(***************************************************************************)

\* C1: in the ACTRIS tables and in the ICOS tables, a provider variable v
\* is listed under an ECV name e in the ECV -> variables table if and only
\* if e is listed under v in the variable -> ECVs table (ICOS variable
\* names compared after lower-casing).
C1_ForwardReverseConsistent ==
    vq.provider # "none" => (vq.fwd <=> vq.rev)

\* a lookup of an ICOS variable written in upper case under an ECV name
\* that two variables share
C1_Witness ==
    /\ vq.provider = "icos"
    /\ vq.e = "Surface Wind Speed and direction"
    /\ vq.v = "WS"
    /\ vq.fwd
    /\ vq.rev

(***************************************************************************)
(* query_datasets_stations: what a call left, as the properties read it    *)
(***************************************************************************)
\* the call ended, and not by a failed page request
AqEnded == aq.status # "idle" /\ aq.exc \notin {"HTTPError", "ConnectionError"}

\* every fetched record holds the keys the loop body reads
AqAllWellFormed ==
    \A i \in 1..Len(aq.all_datasets) : ~body_raises(aq.all_datasets[i])

\* the result holds a descriptor of the raw record ds
AqReturned(ds) == \E k \in 1..Len(aq.value) : aq.value[k].title = ds.title

\* the ECV set of a raw record: the union of the ECV names its attribute
\* descriptions are listed under
EcvSetOf(ds) ==
    UNION {SetOf(actris_ecvs_for(ds.attribute_descriptions[j])) :
               j \in 1..Len(ds.attribute_descriptions)}

\* C2: with variables_list = L given (and no temporal_extent), a descriptor
\* of a fetched raw record is returned if and only if the ECV set computed
\* for the record intersects L.
C2_EcvFilterOnComputedSet ==
    (AqEnded /\ AqAllWellFormed
       /\ aq.variables_list.given /\ ~aq.temporal_extent.given)
    => \A i \in 1..Len(aq.all_datasets) :
          LET ds == aq.all_datasets[i]
          IN  AqReturned(ds)
                <=> (EcvSetOf(ds) \cap SetOf(aq.variables_list.v) # {})

\* C3: with temporal_extent = [t0, t1] given (and no variables_list), a
\* descriptor of a fetched record that maps to an ECV is returned if and
\* only if NOT (start > t1 OR end < t0), start and end being the record's
\* temporal extent, the one the descriptor reports as time_period.
C3_TemporalFilterOnExtent ==
    (AqEnded /\ AqAllWellFormed
       /\ aq.temporal_extent.given /\ ~aq.variables_list.given)
    => \A i \in 1..Len(aq.all_datasets) :
          LET ds == aq.all_datasets[i]
              t0 == to_datetime(aq.temporal_extent.v[1])
              t1 == to_datetime(aq.temporal_extent.v[2])
          IN  EcvSetOf(ds) # {}
              => (AqReturned(ds)
                    <=> ~(\/ to_datetime(ds.time_period_begin) > t1
                          \/ to_datetime(ds.time_period_end) < t0))

\* no page of the catalog holds a record twice
NoPageRepeatsARecord ==
    \A c \in Facilities : \A p \in 1..Len(catalog[c]) : DupFree(catalog[c][p])

\* C5: a raw record fetched through two query paths (its facility listed
\* twice in codes, or the record held by two facilities or two pages) has
\* exactly one descriptor in the result.
C5_OneDescriptorPerRecord ==
    (aq.status = "returned" /\ NoPageRepeatsARecord
       /\ ~aq.variables_list.given /\ ~aq.temporal_extent.given)
    => \A i \in 1..Len(aq.all_datasets) :
          LET ds == aq.all_datasets[i]
          IN  EcvSetOf(ds) # {}
              => Cardinality({k \in 1..Len(aq.value) :
                                 aq.value[k].title = ds.title}) = 1

\* C7: every descriptor returned has a non-empty ecv_variables without
\* duplicates, equal as a set to the union of the ECV sets its record's
\* attribute descriptions map to; a fetched record that maps to no ECV has
\* no descriptor.
C7_EcvVariablesOfDescriptors ==
    aq.status = "returned"
    => /\ \A k \in 1..Len(aq.value) :
             LET d == aq.value[k]
             IN  /\ d.ecv_variables # <<>>
                 /\ DupFree(d.ecv_variables)
                 /\ \E i \in 1..Len(aq.all_datasets) :
                       /\ aq.all_datasets[i].title = d.title
                       /\ SetOf(d.ecv_variables) = EcvSetOf(aq.all_datasets[i])
       /\ \A i \in 1..Len(aq.all_datasets) :
             EcvSetOf(aq.all_datasets[i]) = {} => ~AqReturned(aq.all_datasets[i])

\* a result with a descriptor of two ECVs, three attributes of its record
\* being in the vocabulary, next to a fetched record that maps to no ECV
C7_Witness ==
    /\ aq.status = "returned"
    /\ \E k \in 1..Len(aq.value) : Len(aq.value[k].ecv_variables) = 2
    /\ \E i \in 1..Len(aq.all_datasets) :
          /\ EcvSetOf(aq.all_datasets[i]) = {}
          /\ ~AqReturned(aq.all_datasets[i])

\* the facilities, among those of codes, whose pages hold a record of the
\* given title
FacilitiesHolding(title) ==
    {c \in SetOf(aq.codes) :
        \E p \in 1..Len(catalog[c]) : \E j \in 1..Len(catalog[c][p]) :
            catalog[c][p][j].title = title}

\* C8: every descriptor returned carries as platform_id the facility code
\* whose catalog query returned its raw record.
C8_PlatformIdIsQueriedFacility ==
    aq.status = "returned"
    => \A k \in 1..Len(aq.value) :
          aq.value[k].platform_id \in FacilitiesHolding(aq.value[k].title)

(***************************************************************************)
(* ICOS query_datasets                                                     *)
(***************************************************************************)
\* the result holds a descriptor of the data object dobj
IqReturned(dobj) ==
    \E k \in 1..Len(iq.value) : iq.value[k].urls[1].url = dobj

\* C4: with temporal_extent = [t0, t1], a candidate data object is kept if
\* and only if NOT (timeStart > t1 OR timeEnd < t0).
C4_IcosTemporalOverlap ==
    (iq.status = "returned"
       /\ iq.temporal_extent.given /\ Len(iq.temporal_extent.v) = 2)
    => \A i \in 1..Len(iq.candidates) :
          LET c  == iq.candidates[i]
              t0 == to_datetime(iq.temporal_extent.v[1])
              t1 == to_datetime(iq.temporal_extent.v[2])
          IN  IqReturned(c.dobj) <=> ~(c.timeStart > t1 \/ c.timeEnd < t0)

\* an object that ends on the day the requested extent starts is kept, and
\* so is one that starts on the day the extent ends; one that ends before
\* the extent starts is dropped
C4_Witness ==
    /\ iq.status = "returned"
    /\ iq.temporal_extent = ListArg(<<D20200601, D20210101>>)
    /\ \E i \in 1..Len(iq.candidates) :
          /\ iq.candidates[i].timeEnd = to_datetime(D20200601)
          /\ IqReturned(iq.candidates[i].dobj)
    /\ \E i \in 1..Len(iq.candidates) :
          /\ iq.candidates[i].timeStart = to_datetime(D20210101)
          /\ IqReturned(iq.candidates[i].dobj)
    /\ \E i \in 1..Len(iq.candidates) :
          /\ iq.candidates[i].timeEnd < to_datetime(D20200601)
          /\ ~IqReturned(iq.candidates[i].dobj)

\* C6: the result holds at most one descriptor per data object, also when
\* the object's spec is reached through several selected variables, and
\* that descriptor is the one of the object's first row among the
\* concatenated frames.
C6_IcosOneDescriptorPerObject ==
    iq.status = "returned"
    => \A k \in 1..Len(iq.value) :
          LET d     == iq.value[k]
              first == CHOOSE i \in 1..Len(iq.concat) :
                          /\ iq.concat[i].dobj = d.urls[1].url
                          /\ \A j \in 1..(i - 1) :
                                iq.concat[j].dobj # d.urls[1].url
          IN  /\ \A l \in 1..Len(iq.value) :
                    iq.value[l].urls[1].url = d.urls[1].url => l = k
              /\ \E i \in 1..Len(iq.concat) : iq.concat[i].dobj = d.urls[1].url
              /\ d.time_period = <<iq.concat[first].timeStart,
                                   iq.concat[first].timeEnd>>
              /\ d.platform_id = iq.concat[first].platform_id
              /\ d.file_name = iq.concat[first].fileName

\* a meteo object reached through the five meteo variables, with two rows
\* that differ in their start time, and returned
C6_Witness ==
    /\ iq.status = "returned"
    /\ ~iq.variables_list.given
    /\ \E i, j \in 1..Len(iq.concat) :
          /\ i < j
          /\ iq.concat[i].dobj = iq.concat[j].dobj
          /\ iq.concat[i].spec = SpecMto
          /\ iq.concat[i].timeStart # iq.concat[j].timeStart
          /\ IqReturned(iq.concat[i].dobj)
    /\ Len(iq.concat) >= 10

(***************************************************************************)
(* ACTRIS read_dataset                                                     *)
(***************************************************************************)
\* C9: a data variable without the attribute 'standard_name' is never in
\* the dataset read_dataset returns, whether or not a list of ECV names is
\* requested.
C9_NoAttributeNeverReturned ==
    rd.status = "returned"
    => \A i \in 1..Len(remote.data_vars) :
          ~remote.data_vars[i].has_standard_name
          => ~InList(remote.data_vars[i].name, rd.value)

\* a dataset with a variable that lacks the attribute, read with no list
\* requested, another of its variables being returned
C9_Witness ==
    /\ rd.status = "returned"
    /\ ~rd.variables_list.given
    /\ \E i \in 1..Len(remote.data_vars) :
          ~remote.data_vars[i].has_standard_name
    /\ rd.value # <<>>

\* C10: a data variable named 'NOx_uncertainty' whose attribute maps to an
\* ECV is not in the dataset read_dataset returns, whatever list of ECV
\* names is requested, none included.
C10_UncertaintyNeverReturned ==
    rd.status = "returned" => ~InList("NOx_uncertainty", rd.value)

\* a data variable of the dataset whose 'standard_name' names a static
\* parameter
IsStatic(da) == da.has_standard_name /\ InList(da.standard_name, STATIC_PARAMETERS)

\* C11: a data variable whose 'standard_name' names a static parameter
\* (latitude, longitude, air_pressure, barometric_altitude) is not in the
\* dataset read_dataset returns.
C11_StaticExcluded ==
    rd.status = "returned"
    => \A i \in 1..Len(remote.data_vars) :
          IsStatic(remote.data_vars[i])
          => ~InList(remote.data_vars[i].name, rd.value)

\* C11 as amended: a data variable whose 'standard_name' names a static
\* parameter is in the dataset read_dataset returns, whatever list of ECV
\* names is requested, none included: the request never filters it out.
C11_StaticRetained ==
    rd.status = "returned"
    => \A i \in 1..Len(remote.data_vars) :
          IsStatic(remote.data_vars[i])
          => InList(remote.data_vars[i].name, rd.value)

\* a dataset with the latitude and an NO2 variable, read for an ECV that
\* neither belongs to: the latitude alone is returned
C11_Witness ==
    /\ rd.status = "returned"
    /\ rd.variables_list = ListArg(<<"Ozone">>)
    /\ \E i \in 1..Len(remote.data_vars) :
          remote.data_vars[i].name = "nitrogen_dioxide"
    /\ rd.value = <<"lat">>

(***************************************************************************)
(* read_dataset: failures                                                  *)
(***************************************************************************)
\* the data behind an identifier could not be obtained: Dobj(pid) raised,
\* or gave no data or no meta-data
NotObtained(pid) == portal[pid].state # "ok"

\* C12: when the dataset behind the locator cannot be opened or its data
\* cannot be obtained, read_dataset (ACTRIS and ICOS) raises RuntimeError,
\* which names the locator; it returns None or an empty dataset only after
\* every dataset it tried was opened and had no matching variable.
C12_ReadFailuresRaise ==
    /\ (rd.status # "idle" /\ remote.state # "ok")
          => (rd.status = "raised" /\ rd.exc = "RuntimeError")
    /\ (ird.status # "idle"
          /\ \E i \in 1..Len(ird.tried) : portal[ird.tried[i]].state = "raises")
          => (ird.status = "raised" /\ ird.exc = "RuntimeError")
    /\ (ird.status = "returned" /\ ird.none)
          => \A i \in 1..Len(ird.tried) : ~NotObtained(ird.tried[i])

\* C13: read_dataset first tries to open the locator as a remote dataset
\* (OPeNDAP); it fetches the bytes over HTTP only after that attempt
\* failed; it raises only after both attempts failed; and it makes no HTTP
\* fetch when the first attempt succeeded.
C13_TieredOpen ==
    rd.status # "idle"
    => /\ Len(rd.opens) >= 1
       /\ rd.opens[1] = "xr.open_dataset"
       /\ rd.status = "raised" => rd.opens = <<"xr.open_dataset", "http_fetch">>
       /\ remote.state = "ok" => rd.opens = <<"xr.open_dataset">>

(***************************************************************************)
(* query_datasets_stations: the page requests                              *)
(***************************************************************************)
\* the page the metadata service holds under a request <<code, page>>
PageAt(r) ==
    IF r[2] + 1 <= Len(catalog[r[1]]) THEN catalog[r[1]][r[2] + 1] ELSE <<>>

\* the request that the service fails
IsFailing(r) == fault.code = r[1] /\ fault.page = r[2]

\* the requests that open a facility: those of page 0
FacilityStarts == {i \in 1..Len(aq.requests) : aq.requests[i][2] = 0}

RECURSIVE ConcatPages(_, _)
\* the pages received in answer to the first i requests, one after another
ConcatPages(R, i) ==
    IF i = 0 THEN <<>>
    ELSE ConcatPages(R, i - 1)
         \o (IF IsFailing(R[i]) THEN <<>> ELSE PageAt(R[i]))

\* C14: the requests of a call go facility by facility in the order of
\* codes; within a facility the page numbers are 0, 1, 2, ... with none
\* skipped or repeated; the requests of a facility end with its first
\* empty page; and the records accumulated are the pages received, one
\* after another in the order of the requests.
C14_PaginationProtocol ==
    aq.status # "idle"
    => LET R == aq.requests
           failed == aq.exc \in {"HTTPError", "ConnectionError"}
       IN  /\ \A i \in 1..Len(R) :
                 \/ R[i][2] = 0
                 \/ /\ i > 1
                    /\ R[i - 1][1] = R[i][1]
                    /\ R[i][2] = R[i - 1][2] + 1
           /\ \A i \in FacilityStarts :
                 LET k == Cardinality({j \in FacilityStarts : j <= i})
                 IN  k <= Len(aq.codes) /\ R[i][1] = aq.codes[k]
           /\ ~failed => Cardinality(FacilityStarts) = Len(aq.codes)
           /\ \A i \in 1..Len(R) :
                 IF IsFailing(R[i]) THEN i = Len(R) /\ failed
                 ELSE (PageAt(R[i]) = <<>>)
                        <=> ((i = Len(R) /\ ~failed)
                             \/ (i < Len(R) /\ R[i + 1][2] = 0))
           /\ aq.all_datasets = ConcatPages(R, Len(R))

\* two facilities queried, the first with two pages of records: pages 0, 1
\* and the empty page 2 of the first, then page 0 of the second
C14_Witness ==
    /\ aq.status = "returned"
    /\ aq.codes = <<"ZZ99", "XY12">>
    /\ aq.requests = <<<<"ZZ99", 0>>, <<"ZZ99", 1>>, <<"ZZ99", 2>>, <<"XY12", 0>>>>
    /\ Len(aq.all_datasets) = 2
    /\ aq.all_datasets[1] # aq.all_datasets[2]

\* C15: when a page request fails (HTTP error status or transport
\* exception), the call raises that failure and returns no result: the
\* caller gets no list built from the pages fetched before the failure.
C15_PageFailureRaises ==
    (aq.status # "idle"
       /\ \E i \in 1..Len(aq.requests) : IsFailing(aq.requests[i]))
    => /\ aq.status = "raised"
       /\ aq.exc = fault.exc
       /\ aq.value = <<>>

\* the second page request of a facility fails after the first page gave
\* a record that maps to an ECV
C15_Witness ==
    /\ aq.status = "raised"
    /\ aq.exc = "ConnectionError"
    /\ aq.requests = <<<<"XY12", 0>>, <<"XY12", 1>>>>
    /\ aq.all_datasets = <<RecNO2>>

\* C16: a raw record that lacks a key the normalisation reads does not
\* abort the call: it is skipped and the descriptors of the well-formed
\* records of the batch are returned.
C16_MalformedRecordSkipped ==
    (AqEnded /\ ~aq.variables_list.given /\ ~aq.temporal_extent.given)
    => /\ aq.status = "returned"
       /\ \A i \in 1..Len(aq.all_datasets) :
             LET ds == aq.all_datasets[i]
             IN  AqReturned(ds) <=> (~body_raises(ds) /\ EcvSetOf(ds) # {})

(***************************************************************************)
(* The discovery queries called twice                                      *)
(***************************************************************************)
\* C17: a call with the arguments of an earlier call sends no request to
\* the network and returns what the earlier call returned.
C17_SecondCallFromCache ==
    /\ aq.status # "idle"
          => \A k \in 1..Len(hist) :
                SameCall(hist[k], aq)
                => (aq.requests = <<>> /\ aq.value = hist[k].value)
    /\ iq.status # "idle"
          => \A k \in 1..Len(hist) :
                SameCall(hist[k], iq)
                => (iq.requests = <<>> /\ iq.value = hist[k].value)

\* C18: a discovery query (ACTRIS query_datasets_stations, ICOS
\* query_datasets) called with the arguments of an earlier call of the
\* process, the catalog being unchanged in between, ends the way the
\* earlier call did, whatever the process called in between: the same
\* descriptors with the same field values in the same order, or the same
\* exception.
C18_Idempotent ==
    /\ aq.status # "idle"
          => \A k \in 1..Len(hist) :
                SameCall(hist[k], aq)
                => /\ aq.status = hist[k].status
                   /\ aq.value = hist[k].value
                   /\ aq.exc = hist[k].exc
    /\ iq.status # "idle"
          => \A k \in 1..Len(hist) :
                SameCall(hist[k], iq)
                => /\ iq.status = hist[k].status
                   /\ iq.value = hist[k].value
                   /\ iq.exc = hist[k].exc

\* a process that has called both providers.  query_datasets asked for
\* 'temperature', then for every variable, then for 'temperature' again:
\* the third call takes the ECV list of its descriptor from
\* functools.cache, where the second call has put one more, and returns
\* the descriptor of the first call, the second call having returned two.
\* query_datasets_stations asked for XY12, then for XY12 and ZZ99, then
\* for XY12 again: the third call returns the two descriptors of the
\* first, one of them with two ECV names, the second call having returned
\* descriptors that differ from them.
C18_Witness ==
    /\ Len(hist) = 4
    /\ iq.status = "returned"
    /\ iq.variables_list = ListArg(<<"temperature">>)
    /\ Len(EarlierCalls(iq)) = 2
    /\ SameCall(EarlierCalls(iq)[1], iq)
    /\ ~SameCall(EarlierCalls(iq)[2], iq)
    /\ Len(iq.value) = 1
    /\ Len(EarlierCalls(iq)[2].value) = 2
    /\ EarlierCalls(iq)[1].value = iq.value
    /\ Cardinality(DOMAIN ecv_cache) = 2
    /\ aq.status = "returned"
    /\ Len(EarlierCalls(aq)) = 2
    /\ SameCall(EarlierCalls(aq)[1], aq)
    /\ ~SameCall(EarlierCalls(aq)[2], aq)
    /\ Len(aq.value) = 2
    /\ \E k \in 1..2 : Len(aq.value[k].ecv_variables) = 2
    /\ EarlierCalls(aq)[1].value = aq.value
    /\ EarlierCalls(aq)[2].value # aq.value

(***************************************************************************)
(* ICOS query_datasets: the selection by ECV name                          *)
(***************************************************************************)
\* the names requested: variables_list, or every name of the taxonomy when
\* it is None
IqRequested ==
    IF iq.variables_list.given THEN SetOf(iq.variables_list.v)
    ELSE SetOf(DictKeys(ECV_TO_ICOS_VARS_lowercase))

\* the ECV list reported for a data object of this spec holds a requested
\* name, compared case-insensitively
IqEcvMatch(spec) ==
    \E e \in SetOf(get_ecv_update(DictGetOr(SPEC_TO_ICOS_VAR_lowercase,
                                            spec, <<>>), 1)),
       v \in IqRequested :
        Lower(e) = Lower(v)

\* the row's station is one of codes
IqInCodes(r) == platform_id_of_station(r.station) \in SetOf(iq.codes)

\* the row passes the temporal filter, if there is one
IqInExtent(r) ==
    (iq.temporal_extent.given /\ Len(iq.temporal_extent.v) = 2)
    => ~(\/ to_datetime(r.timeStart) > to_datetime(iq.temporal_extent.v[2])
         \/ to_datetime(r.timeEnd) < to_datetime(iq.temporal_extent.v[1]))

\* C19: among the data objects of the stations in codes, one whose rows
\* pass the temporal filter is returned if and only if the ECV list
\* reported for it (ecv_variables = __get_ecv(spec)) holds, compared
\* case-insensitively, a name of the requested variables_list; an object
\* returned has a row that passes the filter; and when no requested name
\* is in the taxonomy the result is the empty list.
C19_IcosEcvSelection ==
    iq.status = "returned"
    => /\ \A i \in 1..Len(sparql) :
             LET r == sparql[i]
                 Same(j) == sparql[j].dobj = r.dobj /\ IqInCodes(sparql[j])
             IN  /\ (IqInCodes(r) /\ IqEcvMatch(r.spec)
                       /\ \A j \in 1..Len(sparql) :
                             Same(j) => IqInExtent(sparql[j]))
                      => IqReturned(r.dobj)
                 /\ IqReturned(r.dobj)
                      => /\ IqEcvMatch(r.spec)
                         /\ \E j \in 1..Len(sparql) :
                               Same(j) /\ IqInExtent(sparql[j])
       /\ (\A v \in IqRequested :
              \A e \in SetOf(DictKeys(ECV_TO_ICOS_VARS_lowercase)) :
                 Lower(e) # Lower(v))
            => iq.value = <<>>

\* 'temperature' requested in lower case from a station with a meteo
\* object and a CO2 object: the meteo object alone is returned
C19_Witness ==
    /\ iq.status = "returned"
    /\ iq.variables_list = ListArg(<<"temperature">>)
    /\ iq.codes = <<"HPB">>
    /\ \E i \in 1..Len(sparql) : sparql[i].spec = SpecCo2
    /\ Len(iq.value) = 1
    /\ iq.value[1].urls[1].url = "obj-mto-1"

\* C20: query_datasets called with variables_list = [] returns what it
\* returns with variables_list = None, for the same codes and
\* temporal_extent, in whatever order the process lists its sets.
C20_EmptyListAsNone ==
    (iq.status = "returned" /\ iq.variables_list = ListArg(<<>>))
    => \A end \in icos_body(ecv_cache, frame_order, sparql, iq.codes,
                            NoneArg, iq.temporal_extent, TRUE) :
          iq.value = end[3].value

\* the ECV names read_dataset takes as requested: the names of
\* variables_list, or every name of the taxonomy when it is None
IrdRequested ==
    IF ird.variables_list.given THEN SetOf(ird.variables_list.v)
    ELSE SetOf(DictKeys(ECV_TO_ICOS_VARS_lowercase))

\* C21: read_dataset of ICOS returns None or a dataset with at least one
\* data variable, and the lower-cased name of every data variable of a
\* dataset returned is an ICOS variable the taxonomy maps from one of the
\* requested ECV names (from any ECV name when variables_list is None).
C21_IcosReadSelection ==
    ird.status = "returned"
    => \/ ird.none
       \/ /\ ird.value # <<>>
          /\ \A v \in SetOf(ird.value) :
                \E e \in IrdRequested :
                    /\ DictHas(ECV_TO_ICOS_VARS_lowercase, e)
                    /\ InList(Lower(v), DictGet(ECV_TO_ICOS_VARS_lowercase, e))

\* 'Carbon Dioxide' requested from an object with the columns TIMESTAMP,
\* Flag, NbPoints, co2, Stdev: co2 alone is returned
C21_Witness ==
    /\ ird.status = "returned"
    /\ ~ird.none
    /\ ird.variables_list = ListArg(<<"Carbon Dioxide">>)
    /\ ird.pid # None
    /\ InList("Flag", portal[ird.pid].columns)
    /\ ird.value = <<"co2">>

\* a data variable of the dataset that carries 'standard_name' and is not
\* a static parameter
IsAdmissible(da) == da.has_standard_name /\ ~IsStatic(da)

\* the ECV names the vocabulary maps to the 'standard_name' of the data
\* variable hold one of the names requested
EcvRequested(da, requested) ==
    \E e \in SetOf(requested) :
        /\ DictHas(MAPPING_ECV_ACTRIS, e)
        /\ InList(da.standard_name, DictGet(MAPPING_ECV_ACTRIS, e))

\* C23: in read_dataset of ACTRIS, a data variable that carries
\* 'standard_name' and is not a static parameter is, when a list of ECV
\* names is requested, in the dataset returned if and only if an ECV name
\* mapped from its 'standard_name' is in the list (a 'standard_name' the
\* vocabulary does not know has no ECV name and is left out); when no list
\* is requested it is in the dataset returned.
C23_RequestedEcvAdmission ==
    rd.status = "returned"
    => \A i \in 1..Len(remote.data_vars) :
          LET da == remote.data_vars[i]
          IN  IsAdmissible(da)
              => (InList(da.name, rd.value)
                    <=> (rd.variables_list.given
                           => EcvRequested(da, rd.variables_list.v)))

\* NO2 requested from a dataset with an NO2 variable and a variable whose
\* 'standard_name' is not in the vocabulary: the first alone is returned
C23_Witness ==
    /\ rd.status = "returned"
    /\ rd.variables_list = ListArg(<<"NO2">>)
    /\ \E i \in 1..Len(remote.data_vars) :
          /\ remote.data_vars[i].name = "ozone"
          /\ IsAdmissible(remote.data_vars[i])
          /\ actris_ecvs_for(remote.data_vars[i].standard_name) = <<>>
    /\ rd.value = <<"nitrogen_dioxide">>

\* the column is one of an ICOS variable query_datasets selects for the
\* names of variables_list
QuerySelects(column, variables_list) ==
    \E v \in SetOf(selected_var_appended(variables_list)) :
        Lower(v) = Lower(column)

\* C24: query_datasets and read_dataset of ICOS take a variables_list
\* alike: when read_dataset is given a list and has read, from a locator of
\* the dataset, a table with a column of a variable query_datasets selects
\* for that list, it does not return None.
C24_QueryReadConsistent ==
    (ird.status = "returned" /\ ird.variables_list.given)
    => ((\E k \in 1..Len(ird.tried) :
            LET d == portal[ird.tried[k]]
            IN  /\ d.state = "ok"
                /\ InList("TIMESTAMP", d.columns)
                /\ \E c \in SetOf(d.columns) :
                      QuerySelects(c, ird.variables_list.v))
        => ~ird.none)

\* the identifiers of the locators of type 'landing_page', whatever the
\* letter case of the type, in the order of dataset_id
IrdLanding ==
    LET e == SelectSeq(ird.dataset_id,
                       LAMBDA u : Lower(u.type) = "landing_page")
    IN  [k \in 1..Len(e) |-> e[k].url]

\* the columns of the table behind pid that match the request
IrdMatching(pid) ==
    SelectSeq(portal[pid].columns,
              LAMBDA c : /\ c # "TIMESTAMP"
                         /\ Lower(c) \in icos_variables_lowercase(ird.variables_list))

\* the table behind pid can be indexed by time
IrdReadable(pid) ==
    portal[pid].state = "ok" /\ InList("TIMESTAMP", portal[pid].columns)

\* the locator yields no data, or no matching variable
IrdYieldsNothing(pid) ==
    \/ portal[pid].state \in {"data_none", "meta_none"}
    \/ IrdReadable(pid) /\ IrdMatching(pid) = <<>>

\* C25: read_dataset of ICOS goes through the locators in list order: the
\* identifiers fetched are an initial part of those of type 'landing_page'
\* (case-insensitive), in their order, so that no other locator is fetched;
\* every locator fetched but the last yielded no data or no matching
\* variable; a dataset returned is the matching columns of the last
\* locator fetched, the first that yields any; and None is returned only
\* when every 'landing_page' locator was fetched and none yielded any.
C25_LocatorsInOrder ==
    ird.status # "idle"
    => LET n == Len(ird.tried)
       IN  /\ n <= Len(IrdLanding)
           /\ ird.tried = SubSeq(IrdLanding, 1, n)
           /\ \A k \in 1..(n - 1) : IrdYieldsNothing(ird.tried[k])
           /\ (ird.status = "returned" /\ ~ird.none)
                => /\ n > 0
                   /\ ird.pid = ird.tried[n]
                   /\ IrdReadable(ird.pid)
                   /\ ird.value = IrdMatching(ird.pid)
                   /\ ird.value # <<>>
           /\ (ird.status = "returned" /\ ird.none)
                => /\ ird.tried = IrdLanding
                   /\ \A k \in 1..n : IrdYieldsNothing(ird.tried[k])
           /\ ird.status = "raised"
                => /\ n > 0
                   /\ ~IrdYieldsNothing(ird.tried[n])
                   /\ ~IrdReadable(ird.tried[n])

\* a first locator of type 'Landing_Page' whose table has no matching
\* column, then a second one whose table has: the second is returned
C25_Witness ==
    /\ ird.status = "returned"
    /\ ~ird.none
    /\ Len(ird.dataset_id) = 2
    /\ ird.dataset_id[1].type = "Landing_Page"
    /\ ird.tried = <<ird.dataset_id[1].url, ird.dataset_id[2].url>>
    /\ ird.tried[1] # ird.tried[2]
    /\ IrdReadable(ird.tried[1])
    /\ ird.pid = ird.tried[2]

\* C22: the vocabulary mappings are never modified after construction,
\* whatever a caller does with the lists it was handed: the list of ECV
\* names the reverse table of ICOS or of ACTRIS holds for a variable is
\* the one constructed, every result of get_list_variables of ICOS and of
\* query_datasets_stations is the same as the first, get_list_variables
\* of ACTRIS returns the same for the same answer of the vocabulary
\* service, and query_datasets returns what it returns in a process in
\* which no list was modified.
C22_VocabularyNeverMutated ==
    /\ ecv_lists = IcosEcvLists
    /\ actris_lists = <<>>
    /\ \A k \in 1..Len(hist) : hist[k] = hist[1]
    /\ \A j, k \in 1..Len(actris_vars) :
          actris_vars[j].response = actris_vars[k].response
             => actris_vars[j] = actris_vars[k]
    /\ iq.status = "returned"
          => \E end \in icos_body(<<>>, <<>>, sparql, iq.codes,
                                  iq.variables_list, iq.temporal_extent,
                                  TRUE) :
                iq.value = end[3].value

====
